---- MODULE Spec2Model ----
(***************************************************************************)
(* The NBD server (nbd.c): the per-client request pipeline (nbd_read,      *)
(* nbd_trip, nbd_co_receive_request, nbd_co_send_reply), the client and    *)
(* export reference counting, client_close, and the export registry with   *)
(* the newstyle LIST option.                                               *)
(*                                                                         *)
(* The whole program state is gathered in a record W ("world"); every C    *)
(* function is an operator from worlds to worlds, and an action runs one   *)
(* coroutine from the point where it was suspended to its next suspension  *)
(* point (or to its end), exactly as the single-threaded event loop does.  *)
(***************************************************************************)
EXTENDS Integers, Sequences, FiniteSets, TLC

VARIABLES
    cl,       \* cl[c]: the NBDClient structure of client c (plus ghost fields)
    co,       \* co[c][s]: the nbd_trip coroutine in slot s of client c
    bg,       \* bg[c]: number of nbd_trip coroutines of c stalled in the same FLUSH
    ex,       \* ex[e]: the NBDExport structure of export e
    exports,  \* the registry: the QTAILQ of exports bound to a name
    hnd,      \* hnd[c][ctx]: fd handlers registered for c's socket on AioContext ctx
    wire,     \* wire[c]: what has been written to c's socket
    neg,      \* neg[c]: the negotiation coroutine of client c
    bindlog,  \* ghost: the exports with a bound name, in the order of binding
    abort,    \* "none", or the assertion / fault that stopped the process
    scn,      \* the scenario: export configuration and the peer's behaviour
    disk,     \* disk[i]: what sector i of the backend holds
    rt        \* a WRITE and the READ of the same range, with their buffers

vars == <<cl, co, bg, ex, exports, hnd, wire, neg, bindlog, abort, scn, disk, rt>>

(***************************************************************************)
(* Program constants.                                                      *)
(***************************************************************************)
MAX_NBD_REQUESTS == 16
NBD_MAX_BUFFER_SIZE == 33554432
BDRV_SECTOR_SIZE == 512
NBD_REQUEST_MAGIC == 627086611
NBD_CMD_MASK_COMMAND == 65535
NBD_CMD_FLAG_FUA == 65536
NBD_CMD_READ == 0
NBD_CMD_WRITE == 1
NBD_CMD_DISC == 2
NBD_CMD_FLUSH == 3
NBD_CMD_TRIM == 4
NBD_FLAG_READ_ONLY == 2

\* host errno values
EPERM == 1
EIO == 5
EAGAIN == 11
ENOMEM == 12
EINVAL == 22
EFBIG == 27
ENOSPC == 28
EROFS == 30
EDQUOT == 122
\* NBD wire error codes
NBD_SUCCESS == 0
NBD_EPERM == 1
NBD_EIO == 5
NBD_ENOMEM == 12
NBD_EINVAL == 22
NBD_ENOSPC == 28

\* The reply header carrying the host errno as it is
system_errno_to_nbd_errno_raw(err) == err

system_errno_to_nbd_errno(err) ==
    CASE err = 0 -> NBD_SUCCESS
      [] err = EPERM -> NBD_EPERM
      [] err = EIO -> NBD_EIO
      [] err = ENOMEM -> NBD_ENOMEM
      [] err \in {EDQUOT, EFBIG, ENOSPC} -> NBD_ENOSPC
      [] OTHER -> NBD_EINVAL

(***************************************************************************)
(* uint64_t arithmetic.  A 64-bit value is four 16-bit limbs, most         *)
(* significant first; the sum wraps modulo 2^64 as the C addition does.    *)
(***************************************************************************)
LIMB == 65536

U64Of(n) == <<0, 0, (n \div LIMB) % LIMB, n % LIMB>>

Add64(a, b) ==
    LET s4 == a[4] + b[4]
        s3 == a[3] + b[3] + (s4 \div LIMB)
        s2 == a[2] + b[2] + (s3 \div LIMB)
        s1 == a[1] + b[1] + (s2 \div LIMB)
    IN  <<s1 % LIMB, s2 % LIMB, s3 % LIMB, s4 % LIMB>>

Lt64(a, b) ==
    \/ a[1] < b[1]
    \/ a[1] = b[1] /\ a[2] < b[2]
    \/ a[1] = b[1] /\ a[2] = b[2] /\ a[3] < b[3]
    \/ a[1] = b[1] /\ a[2] = b[2] /\ a[3] = b[3] /\ a[4] < b[4]

\* 2^64 - 512, the largest sector-aligned offset
MaxFrom == <<LIMB - 1, LIMB - 1, LIMB - 1, LIMB - BDRV_SECTOR_SIZE>>

(***************************************************************************)
(* Bounds of the model.                                                    *)
(***************************************************************************)
MaxDepth == 2      \* nbd_trip coroutines of one client modelled individually
NCtx == 2          \* AioContexts the backend can move between

Clients == {1}
Exps == {1, 2}
Slots == 1..MaxDepth
Ctxs == 1..NCtx
NULL == 0
NULLNAME == "<null>"
\* Export names: one of one byte and one of 255 bytes
LongName == "name of 255 bytes"
Names == {"a", LongName}
\* A name the peer can send: the three bytes 'a', 0, 'x'
NulName == "a<NUL>x"

(***************************************************************************)
(* Structures.                                                             *)
(***************************************************************************)
NoHandlers == [x \in Ctxs |-> [rd |-> FALSE, wr |-> FALSE]]

\* The negotiation coroutine (nbd_co_client_start) of a client.
\*   pc      where it is suspended, "done" after success, "failed" after failure
\*   opt, length   the option being handled
\*   cursor  the export the LIST loop is at
\*   out     ghost: the option replies written for the current option
\*   snap    ghost: the names bound when the LIST option was received, in
\*           the order of binding
\*   res     ghost: "pending" while a LIST with length 0 is handled, then
\*           "ok" or "fail"
\*   dropped ghost: payload bytes of the current option read and discarded
\*   refused ghost: the client flags read were neither 0 nor FIXED_NEWSTYLE
NoNeg == [pc |-> "done", opt |-> 0, length |-> 0, cursor |-> NULL,
          out |-> <<>>, snap |-> <<>>, res |-> "none", dropped |-> 0,
          refused |-> FALSE]

\* struct nbd_request / struct nbd_reply: the locals of nbd_trip
NoRequest == [type |-> 0, handle |-> 0, from |-> <<0, 0, 0, 0>>, len |-> 0]
NoReply == [handle |-> 0, error |-> 0]

\* Ghost record of one request: what happened while it was served.
\*   got     a header with valid magic was decoded
\*   rc      what nbd_co_receive_request returned
\*   nrep    reply headers written completely to the socket
\*   whandle, werror   the handle and error fields of that header
\*   herr    reply.error as nbd_send_reply found it, a host errno
\*   wdata   the READ payload was written completely
\*   ncalls  backend operations issued (flush, read, write, discard)
\*   berr    errno of the backend operation that failed, 0 if none
\*   iofail  a socket receive or send of this request failed
\*   closed  this coroutine called client_close
NoGhost == [got |-> FALSE, rc |-> 0, nrep |-> 0, whandle |-> 0, werror |-> 0, wdata |-> FALSE,
            herr |-> 0, ncalls |-> 0, berr |-> 0, iofail |-> FALSE, closed |-> FALSE]

FreeCo == [pc |-> "free", request |-> NoRequest, reply |-> NoReply,
           data |-> FALSE, len |-> 0, g |-> NoGhost]

BackendPcs == {"flush_r", "read", "write", "flush_w", "flush", "discard"}
SendPcs == {"send_hdr", "send_data"}
RecvPcs == {"recv_hdr", "recv_data"}
LivePcs == BackendPcs \cup SendPcs \cup RecvPcs \cup {"lock"}

\* The world: all the program state in one record.
World == [cl |-> cl, co |-> co, bg |-> bg, ex |-> ex, exports |-> exports,
          hnd |-> hnd, wire |-> wire, neg |-> neg, bindlog |-> bindlog,
          abort |-> abort]

Apply(W) ==
    /\ cl' = W.cl
    /\ co' = W.co
    /\ bg' = W.bg
    /\ ex' = W.ex
    /\ exports' = W.exports
    /\ hnd' = W.hnd
    /\ wire' = W.wire
    /\ neg' = W.neg
    /\ bindlog' = SelectSeq(W.bindlog, LAMBDA e: W.ex[e].name # NULLNAME)
    /\ abort' = W.abort
    /\ scn' = scn
    /\ disk' = disk
    /\ rt' = rt

\* A failed assert() or a fault ends the process; the first one is kept.
Abort(W, what) == IF W.abort = "none" THEN [W EXCEPT !.abort = what] ELSE W
Halted(W) == W.abort # "none"

(***************************************************************************)
(* List helpers (QTAILQ).                                                  *)
(***************************************************************************)
SeqRemove(q, x) == SelectSeq(q, LAMBDA y: y # x)
InSeq(q, x) == \E i \in 1..Len(q): q[i] = x

(***************************************************************************)
(* Reactor registration.                                                   *)
(***************************************************************************)
\* nbd_set_handlers: the read handler is nbd_read iff can_read, the write
\* handler is nbd_restart_write iff a send coroutine exists.
nbd_set_handlers(W, c) ==
    LET e == W.cl[c].exp IN
    IF e # NULL /\ W.ex[e].ctx # NULL
    THEN [W EXCEPT !.hnd[c][W.ex[e].ctx] =
              [rd |-> W.cl[c].can_read, wr |-> W.cl[c].send_coroutine # NULL]]
    ELSE W

\* nbd_unset_handlers leaving the registration as it is
nbd_unset_handlers_kept(W, c) == W

nbd_unset_handlers(W, c) ==
    LET e == W.cl[c].exp IN
    IF e # NULL /\ W.ex[e].ctx # NULL
    THEN [W EXCEPT !.hnd[c][W.ex[e].ctx] = [rd |-> FALSE, wr |-> FALSE]]
    ELSE W

\* nbd_update_can_read with the comparison off by one
nbd_update_can_read_lax(W, c) ==
    LET can_read == W.cl[c].recv_coroutine # NULL
                    \/ W.cl[c].nb_requests <= MAX_NBD_REQUESTS
    IN  IF can_read # W.cl[c].can_read
        THEN nbd_set_handlers([W EXCEPT !.cl[c].can_read = can_read], c)
        ELSE W

nbd_update_can_read(W, c) ==
    LET can_read == W.cl[c].recv_coroutine # NULL
                    \/ W.cl[c].nb_requests < MAX_NBD_REQUESTS
    IN  IF can_read # W.cl[c].can_read
        THEN nbd_set_handlers([W EXCEPT !.cl[c].can_read = can_read], c)
        ELSE W

(***************************************************************************)
(* Reference counting of clients and exports, client_close, and the        *)
(* export registry.  These functions call each other: nbd_client_put       *)
(* releases the export, nbd_export_put closes the export when one          *)
(* reference is left, nbd_export_close closes the clients.                 *)
(***************************************************************************)
RECURSIVE nbd_client_put(_, _)
RECURSIVE client_close(_, _, _)
RECURSIVE nbd_export_put(_, _)
RECURSIVE nbd_export_close(_, _)
RECURSIVE nbd_export_set_name(_, _, _)
RECURSIVE CloseClients(_, _)
RECURSIVE CloseExports(_, _)

nbd_client_get(W, c) == [W EXCEPT !.cl[c].refcount = @ + 1]

nbd_export_get(W, e) ==
    IF Halted(W) THEN W
    ELSE IF ~(W.ex[e].refcount > 0)
         THEN Abort(W, "nbd_export_get: assert(exp->refcount > 0)")
    ELSE [W EXCEPT !.ex[e].refcount = @ + 1]

\* The close callback the acceptor passed to nbd_client_new: it releases
\* the acceptor's reference to the client.
close_fn(W, c) ==
    nbd_client_put([W EXCEPT !.cl[c].close_calls = @ + 1], c)

\* Values a read of client->closing and client->close can yield once the
\* NBDClient has been passed to g_free: the flag reads true; or it reads
\* false and the callback pointer is intact, is NULL, or is garbage.
FreedReads == {"closing", "cb", "nocb", "wild"}

\* client_close invoking the callback before it sets closing
client_close_cb_first(W, c, ub) ==
    LET Mark(V) ==
            IF Halted(V) THEN V
            ELSE [V EXCEPT !.cl[c].closing = TRUE, !.cl[c].shut = TRUE]
    IN  IF Halted(W) \/ W.cl[c].closing THEN W
        ELSE IF W.cl[c].has_close THEN Mark(close_fn(W, c))
        ELSE Mark(W)

\* client_close.  ub is what the reads yield if the client was freed.
client_close(W, c, ub) ==
    LET freed == W.cl[c].freed
        closing == IF freed THEN ub = "closing" ELSE W.cl[c].closing
        has_cb == IF freed THEN ub = "cb" ELSE W.cl[c].has_close
        Callback(V) ==
            IF freed /\ ub = "wild"
            THEN Abort(V, "client_close: call through a dangling pointer")
            ELSE IF has_cb THEN close_fn(V, c)
            ELSE V
        Close(V) ==
            IF closing THEN V
            ELSE Callback([V EXCEPT !.cl[c].closing = TRUE, !.cl[c].shut = TRUE])
    IN  IF Halted(W) THEN W
        ELSE Close([W EXCEPT !.cl[c].uaf = @ \/ freed])

nbd_client_put(W, c) ==
    LET Free(V) == IF Halted(V) THEN V ELSE [V EXCEPT !.cl[c].freed = TRUE]
        Detach(V) ==
            LET e == V.cl[c].exp IN
            IF e = NULL THEN V
            ELSE IF ~InSeq(V.ex[e].clients, c)
                 THEN Abort(V, "nbd_client_put: QTAILQ_REMOVE of a client not in the list")
            ELSE nbd_export_put([V EXCEPT !.ex[e].clients = SeqRemove(@, c)], e)
        Release(V) ==
            Free(Detach([nbd_unset_handlers(V, c) EXCEPT !.cl[c].sock = -1]))
        Dec(V) ==
            IF V.cl[c].refcount # 0 THEN V
            ELSE IF ~V.cl[c].closing
                 THEN Abort(V, "nbd_client_put: assert(client->closing)")
            ELSE Release(V)
    IN  IF Halted(W) THEN W
        ELSE Dec([W EXCEPT !.cl[c].refcount = @ - 1])

\* The QTAILQ_FOREACH_SAFE loop of nbd_export_close over the clients that
\* were in the list when it started.
CloseClients(W, q) ==
    IF q = <<>> THEN W
    ELSE CloseClients(client_close(W, Head(q), "closing"), Tail(q))

\* nbd_export_close that unbinds the name and leaves the clients alone
nbd_export_close_quiet(W, e) ==
    nbd_export_put(nbd_export_set_name(nbd_export_get(W, e), e, NULLNAME), e)

nbd_export_close(W, e) ==
    LET Loop(V) == CloseClients(V, V.ex[e].clients) IN
    nbd_export_put(nbd_export_set_name(Loop(nbd_export_get(W, e)), e, NULLNAME), e)

\* The QTAILQ_FOREACH_SAFE loop of nbd_export_close_all over the registry:
\* the successor of an export is read before the export is closed, and is
\* dereferenced after.
CloseExports(W, q) ==
    IF Halted(W) \/ q = <<>> THEN W
    ELSE IF ~W.ex[Head(q)].alive \/ ~InSeq(W.exports, Head(q))
         THEN Abort(W, "nbd_export_close_all: the next export left the registry")
    ELSE CloseExports(nbd_export_close(W, Head(q)), Tail(q))

\* nbd_export_close_all that stops after the first export
nbd_export_close_all_first(W) ==
    CloseExports(W, IF W.exports = <<>> THEN <<>> ELSE <<Head(W.exports)>>)

nbd_export_close_all(W) == CloseExports(W, W.exports)

\* nbd_export_set_name inserting at the head of the registry
nbd_export_set_name_head(W, e, name) ==
    LET Unbind(V) ==
            IF Halted(V) \/ V.ex[e].name = NULLNAME THEN V
            ELSE nbd_export_put([V EXCEPT !.ex[e].name = NULLNAME,
                                          !.exports = SeqRemove(@, e)], e)
        Insert(V) ==
            IF Halted(V) THEN V
            ELSE [V EXCEPT !.ex[e].name = name, !.exports = <<e>> \o @]
        Bind(V) ==
            IF Halted(V) \/ name = NULLNAME THEN V
            ELSE Insert(nbd_export_get(V, e))
    IN  IF Halted(W) THEN W
        ELSE IF W.ex[e].name = NULLNAME /\ name = NULLNAME THEN W
        ELSE nbd_export_put(Bind(Unbind(nbd_export_get(W, e))), e)

\* nbd_export_set_name that keeps the reference it took on entry
nbd_export_set_name_leak(W, e, name) ==
    LET Unbind(V) ==
            IF Halted(V) \/ V.ex[e].name = NULLNAME THEN V
            ELSE nbd_export_put([V EXCEPT !.ex[e].name = NULLNAME,
                                          !.exports = SeqRemove(@, e)], e)
        Insert(V) ==
            IF Halted(V) THEN V
            ELSE [V EXCEPT !.ex[e].name = name, !.exports = Append(@, e)]
        Bind(V) ==
            IF Halted(V) \/ name = NULLNAME THEN V
            ELSE Insert(nbd_export_get(V, e))
    IN  IF Halted(W) THEN W
        ELSE IF W.ex[e].name = NULLNAME /\ name = NULLNAME THEN W
        ELSE Bind(Unbind(nbd_export_get(W, e)))

\* nbd_export_set_name that binds without taking a reference for the name
nbd_export_set_name_weak(W, e, name) ==
    LET Unbind(V) ==
            IF Halted(V) \/ V.ex[e].name = NULLNAME THEN V
            ELSE nbd_export_put([V EXCEPT !.ex[e].name = NULLNAME,
                                          !.exports = SeqRemove(@, e)], e)
        Insert(V) ==
            IF Halted(V) THEN V
            ELSE [V EXCEPT !.ex[e].name = name, !.exports = Append(@, e)]
        Bind(V) ==
            IF Halted(V) \/ name = NULLNAME THEN V
            ELSE Insert(V)
    IN  IF Halted(W) THEN W
        ELSE IF W.ex[e].name = NULLNAME /\ name = NULLNAME THEN W
        ELSE nbd_export_put(Bind(Unbind(nbd_export_get(W, e))), e)

\* nbd_export_set_name that unbinds the name and leaves the export in the
\* registry
nbd_export_set_name_listed(W, e, name) ==
    LET Unbind(V) ==
            IF Halted(V) \/ V.ex[e].name = NULLNAME THEN V
            ELSE nbd_export_put([V EXCEPT !.ex[e].name = NULLNAME], e)
        Insert(V) ==
            IF Halted(V) THEN V
            ELSE [V EXCEPT !.ex[e].name = name, !.exports = Append(@, e)]
        Bind(V) ==
            IF Halted(V) \/ name = NULLNAME THEN V
            ELSE Insert(nbd_export_get(V, e))
    IN  IF Halted(W) THEN W
        ELSE IF W.ex[e].name = NULLNAME /\ name = NULLNAME THEN W
        ELSE nbd_export_put(Bind(Unbind(nbd_export_get(W, e))), e)

\* exp->name == name compares pointers: the stored name is a private copy,
\* so the test holds only when both are NULL.
nbd_export_set_name(W, e, name) ==
    LET Unbind(V) ==
            IF Halted(V) \/ V.ex[e].name = NULLNAME THEN V
            ELSE nbd_export_put([V EXCEPT !.ex[e].name = NULLNAME,
                                          !.exports = SeqRemove(@, e)], e)
        Insert(V) ==
            IF Halted(V) THEN V
            ELSE [V EXCEPT !.ex[e].name = name, !.exports = Append(@, e)]
        Bind(V) ==
            IF Halted(V) \/ name = NULLNAME THEN V
            ELSE Insert(nbd_export_get(V, e))
    IN  IF Halted(W) THEN W
        ELSE IF W.ex[e].name = NULLNAME /\ name = NULLNAME THEN W
        ELSE nbd_export_put(Bind(Unbind(nbd_export_get(W, e))), e)

nbd_export_put(W, e) ==
    LET Dec(V) ==
            IF V.ex[e].refcount # 0 THEN V
            ELSE IF V.ex[e].name # NULLNAME
                 THEN Abort(V, "nbd_export_put: assert(exp->name == NULL)")
            ELSE [V EXCEPT !.ex[e].close_calls = @ + 1,
                           !.ex[e].blk = FALSE,
                           !.ex[e].alive = FALSE]
        Put(V) == IF Halted(V) THEN V ELSE Dec([V EXCEPT !.ex[e].refcount = @ - 1])
    IN  IF Halted(W) THEN W
        ELSE IF ~(W.ex[e].refcount > 0)
             THEN Abort(W, "nbd_export_put: assert(exp->refcount > 0)")
        ELSE IF W.ex[e].refcount = 1 THEN Put(nbd_export_close(W, e))
        ELSE Put(W)

nbd_export_find(W, name) ==
    LET hits == {i \in 1..Len(W.exports): W.ex[W.exports[i]].name = name} IN
    IF hits = {} THEN NULL
    ELSE W.exports[CHOOSE i \in hits: \A j \in hits: i <= j]

(***************************************************************************)
(* Requests.                                                               *)
(***************************************************************************)
SetCo(W, c, s, r) == [W EXCEPT !.co[c][s] = r]
Ghost(W, c, s, f, v) == [W EXCEPT !.co[c][s].g[f] = v]

nbd_request_get(W, c, s) ==
    IF Halted(W) THEN W
    ELSE IF ~(W.cl[c].nb_requests <= MAX_NBD_REQUESTS - 1)
    THEN Abort(W, "nbd_request_get: assert(client->nb_requests <= MAX_NBD_REQUESTS - 1)")
    ELSE SetCo(nbd_client_get(
                   nbd_update_can_read([W EXCEPT !.cl[c].nb_requests = @ + 1], c), c),
               c, s, [FreeCo EXCEPT !.pc = "run"])

\* nbd_request_put keeping the request's reference to the client
nbd_request_put_leak(W, c, s) ==
    IF Halted(W) THEN W
    ELSE nbd_update_can_read([W EXCEPT !.co[c][s].data = FALSE,
                                       !.cl[c].nb_requests = @ - 1], c)

\* nbd_request_put that leaves can_read as it was
nbd_request_put_stale(W, c, s) ==
    IF Halted(W) THEN W
    ELSE nbd_client_put([W EXCEPT !.co[c][s].data = FALSE,
                                  !.cl[c].nb_requests = @ - 1], c)

\* nbd_request_put that updates can_read before it counts the request out
nbd_request_put_late(W, c, s) ==
    IF Halted(W) THEN W
    ELSE LET V == nbd_update_can_read([W EXCEPT !.co[c][s].data = FALSE], c)
         IN  nbd_client_put([V EXCEPT !.cl[c].nb_requests = @ - 1], c)

nbd_request_put(W, c, s) ==
    IF Halted(W) THEN W
    ELSE nbd_client_put(
             nbd_update_can_read([W EXCEPT !.co[c][s].data = FALSE,
                                           !.cl[c].nb_requests = @ - 1], c), c)

(***************************************************************************)
(* The send mutex (CoMutex).  A coroutine that finds it locked joins the   *)
(* FIFO queue and suspends; unlock marks the first waiter to be entered    *)
(* as soon as the unlocking coroutine yields or ends.                      *)
(***************************************************************************)
qemu_co_mutex_lock(W, c, s) ==
    IF W.cl[c].send_lock.locked
    THEN [W EXCEPT !.cl[c].send_lock.queue = Append(@, s), !.co[c][s].pc = "lock"]
    ELSE [W EXCEPT !.cl[c].send_lock.locked = TRUE]

qemu_co_mutex_unlock(W, c) ==
    LET q == W.cl[c].send_lock.queue IN
    IF q = <<>>
    THEN [W EXCEPT !.cl[c].send_lock.locked = FALSE]
    ELSE [W EXCEPT !.cl[c].send_lock.locked = FALSE,
                   !.cl[c].send_lock.queue = Tail(q),
                   !.cl[c].send_lock.woken = Head(q)]

(***************************************************************************)
(* nbd_co_send_reply, cut at its suspension points.                        *)
(***************************************************************************)
\* nbd_send_reply up to its write: the errno of the reply is mapped and
\* the header is encoded.
nbd_send_reply(W, c, s) ==
    [W EXCEPT !.co[c][s].reply.error = system_errno_to_nbd_errno(@),
              !.co[c][s].g.herr = W.co[c][s].reply.error,
              !.co[c][s].pc = "send_hdr"]

\* With the mutex held: publish the send coroutine and start the header.
SendBegin(W, c, s) ==
    nbd_send_reply(nbd_set_handlers([W EXCEPT !.cl[c].send_coroutine = s], c), c, s)

\* nbd_co_send_reply without the send mutex
nbd_co_send_reply_unlocked(W, c, s, len) ==
    IF Halted(W) THEN W
    ELSE SendBegin([W EXCEPT !.co[c][s].len = len], c, s)

nbd_co_send_reply(W, c, s, len) ==
    LET Locked(V) == IF V.co[c][s].pc = "lock" THEN V ELSE SendBegin(V, c, s) IN
    IF Halted(W) THEN W
    ELSE Locked(qemu_co_mutex_lock([W EXCEPT !.co[c][s].len = len], c, s))

\* The coroutine unlock has marked runs when the current one ends: it
\* finds the mutex free, takes it and starts its own reply.
RunWoken(W, c) ==
    IF Halted(W) \/ W.cl[c].send_lock.woken = NULL THEN W
    ELSE SendBegin([W EXCEPT !.cl[c].send_lock.woken = NULL,
                             !.cl[c].send_lock.locked = TRUE],
                   c, W.cl[c].send_lock.woken)

\* Bytes of the reply of coroutine s reach the socket.  The reply is
\* complete when last holds; until then the frame is open on the wire.
WireWrite(W, c, s, last) ==
    [W EXCEPT !.wire[c].torn = @ \/ W.wire[c].owner \notin {NULL, s},
              !.wire[c].owner = IF last THEN NULL ELSE s]

(***************************************************************************)
(* nbd_trip, cut at its suspension points.                                 *)
(***************************************************************************)
\* The end of the coroutine.  done: nbd_request_put(req); return.
\* out: nbd_request_put(req); client_close(client).
TripEnd(W, c, s, label, ub) ==
    LET Close(V) ==
            IF label = "out"
            THEN [client_close(V, c, ub) EXCEPT !.co[c][s].g.closed = TRUE]
            ELSE V
        End(V) == RunWoken([V EXCEPT !.co[c][s].pc = "done"], c)
    IN  End(Close(nbd_request_put(W, c, s)))

\* The end of nbd_co_send_reply without its second nbd_set_handlers
SendEnd_stale(W, c, s, rc, ub) ==
    TripEnd(qemu_co_mutex_unlock([W EXCEPT !.cl[c].send_coroutine = NULL], c),
            c, s, IF rc < 0 THEN "out" ELSE "done", ub)

SendEnd_held(W, c, s, rc, ub) ==
    LET V == nbd_set_handlers([W EXCEPT !.cl[c].send_coroutine = NULL], c) IN
    IF rc < 0 THEN TripEnd(V, c, s, "out", ub)
    ELSE TripEnd(qemu_co_mutex_unlock(V, c), c, s, "done", ub)

\* The end of nbd_co_send_reply and the return into nbd_trip.
SendEnd(W, c, s, rc, ub) ==
    TripEnd(qemu_co_mutex_unlock(
                nbd_set_handlers([W EXCEPT !.cl[c].send_coroutine = NULL], c), c),
            c, s, IF rc < 0 THEN "out" ELSE "done", ub)

Command(request) == request.type % (NBD_CMD_MASK_COMMAND + 1)
HasFUA(request) == (request.type \div NBD_CMD_FLAG_FUA) % 2 = 1
EndOf(request) == Add64(request.from, U64Of(request.len))

\* Where nbd_trip goes: to a label (done, out), to a reply with an errno
\* (error_reply, invalid_request, or the reply of a completed command), or
\* into a backend operation.
Goto(label) == [to |-> label, error |-> 0, len |-> 0, op |-> "none"]
Reply(error, len) == [to |-> "reply", error |-> error, len |-> len, op |-> "none"]
Call(op) == [to |-> "call", error |-> 0, len |-> 0, op |-> op]

\* nbd_trip from the return of nbd_co_receive_request to the first
\* backend call or to the reply.
Dispatch(request, exp, closing, ret) ==
    LET command == Command(request) IN
    IF ret = -EAGAIN THEN Goto("done")
    ELSE IF ret = -EIO THEN Goto("out")
    ELSE IF ret < 0 THEN Reply(-ret, 0)
    ELSE IF command # NBD_CMD_DISC /\ Lt64(exp.size, EndOf(request))
         THEN Reply(EINVAL, 0)
    ELSE IF closing THEN Goto("done")
    ELSE CASE command = NBD_CMD_READ ->
                  IF HasFUA(request) THEN Call("flush_r") ELSE Call("read")
           [] command = NBD_CMD_WRITE ->
                  IF (exp.nbdflags \div NBD_FLAG_READ_ONLY) % 2 = 1
                  THEN Reply(EROFS, 0)
                  ELSE Call("write")
           [] command = NBD_CMD_DISC -> Goto("out")
           [] command = NBD_CMD_FLUSH -> Call("flush")
           [] command = NBD_CMD_TRIM -> Call("discard")
           [] OTHER -> Reply(EINVAL, 0)

\* nbd_trip answering a WRITE with FUA before the flush
Continue_unflushed(request, op, ret) ==
    CASE op = "flush_r" -> IF ret < 0 THEN Reply(-ret, 0) ELSE Call("read")
      [] op = "read" -> IF ret < 0 THEN Reply(-ret, 0) ELSE Reply(0, request.len)
      [] op = "write" -> IF ret < 0 THEN Reply(-ret, 0) ELSE Reply(0, 0)
      [] op = "flush_w" -> IF ret < 0 THEN Reply(-ret, 0) ELSE Reply(0, 0)
      [] op \in {"flush", "discard"} -> IF ret < 0 THEN Reply(-ret, 0) ELSE Reply(0, 0)

\* nbd_trip after the backend operation op returned ret.
Continue(request, op, ret) ==
    CASE op = "flush_r" -> IF ret < 0 THEN Reply(-ret, 0) ELSE Call("read")
      [] op = "read" -> IF ret < 0 THEN Reply(-ret, 0) ELSE Reply(0, request.len)
      [] op = "write" ->
             IF ret < 0 THEN Reply(-ret, 0)
             ELSE IF HasFUA(request) THEN Call("flush_w")
             ELSE Reply(0, 0)
      [] op = "flush_w" -> IF ret < 0 THEN Reply(-ret, 0) ELSE Reply(0, 0)
      [] op \in {"flush", "discard"} -> IF ret < 0 THEN Reply(-ret, 0) ELSE Reply(0, 0)

\* nbd_trip answering an error by ending the request without a reply
TripStep_silent(W, c, s, d, ub) ==
    IF d.to = "reply" /\ d.error # 0 THEN TripEnd(W, c, s, "done", ub)
    ELSE IF d.to = "reply"
         THEN nbd_co_send_reply([W EXCEPT !.co[c][s].reply.error = d.error], c, s, d.len)
    ELSE IF d.to = "call"
         THEN [W EXCEPT !.co[c][s].pc = d.op, !.co[c][s].g.ncalls = @ + 1]
    ELSE TripEnd(W, c, s, d.to, ub)

\* The coroutine takes the step d of nbd_trip.
TripStep(W, c, s, d, ub) ==
    CASE d.to = "call" ->
             [W EXCEPT !.co[c][s].pc = d.op, !.co[c][s].g.ncalls = @ + 1]
      [] d.to = "reply" ->
             nbd_co_send_reply([W EXCEPT !.co[c][s].reply.error = d.error], c, s, d.len)
      [] OTHER -> TripEnd(W, c, s, d.to, ub)

\* nbd_trip without the test of the request against the export size
AfterReceive_norange(W, c, s, ret, ub) ==
    LET request == W.co[c][s].request
        d == Dispatch(request, [W.ex[W.cl[c].exp] EXCEPT !.size = MaxFrom],
                      W.cl[c].closing, ret)
    IN  IF d.to \in {"done", "out"} /\ ret < 0 THEN TripStep(W, c, s, d, ub)
        ELSE TripStep([W EXCEPT !.co[c][s].reply =
                                    [handle |-> request.handle, error |-> 0]],
                      c, s, d, ub)

\* nbd_trip without the test of client->closing after the receive
AfterReceive_open(W, c, s, ret, ub) ==
    LET request == W.co[c][s].request
        d == Dispatch(request, W.ex[W.cl[c].exp], FALSE, ret)
    IN  IF d.to \in {"done", "out"} /\ ret < 0 THEN TripStep(W, c, s, d, ub)
        ELSE TripStep([W EXCEPT !.co[c][s].reply =
                                    [handle |-> request.handle, error |-> 0]],
                      c, s, d, ub)

AfterReceive(W, c, s, ret, ub) ==
    LET request == W.co[c][s].request
        d == Dispatch(request, W.ex[W.cl[c].exp], W.cl[c].closing, ret)
    IN  IF d.to \in {"done", "out"} /\ ret < 0 THEN TripStep(W, c, s, d, ub)
        ELSE TripStep([W EXCEPT !.co[c][s].reply =
                                    [handle |-> request.handle, error |-> 0]],
                      c, s, d, ub)

\* nbd_trip closing the connection when a backend operation fails
AfterBackend_fatal(W, c, s, ret) ==
    LET r == W.co[c][s] IN
    IF ret < 0
    THEN TripEnd([W EXCEPT !.co[c][s].g.berr = -ret], c, s, "out", "closing")
    ELSE TripStep(W, c, s, Continue(r.request, r.pc, ret), "closing")

AfterBackend(W, c, s, ret) ==
    LET r == W.co[c][s] IN
    TripStep([W EXCEPT !.co[c][s].g.berr = IF ret < 0 THEN -ret ELSE @],
             c, s, Continue(r.request, r.pc, ret), "closing")

\* The end of nbd_co_receive_request (label out) and the return into nbd_trip.
ReceiveEnd(W, c, s, rc, ub) ==
    AfterReceive(nbd_update_can_read([W EXCEPT !.cl[c].recv_coroutine = NULL,
                                               !.co[c][s].g.rc = rc], c),
                 c, s, rc, ub)

\* What nbd_co_receive_request returns once nbd_receive_request has read
\* the header h, or "payload" when it goes on to receive the WRITE payload;
\* alloc tells whether blk_try_blockalign succeeds.
ReceiveRc(h, alloc) ==
    LET command == Command(h) IN
    IF h.magic # NBD_REQUEST_MAGIC THEN -EIO
    ELSE IF Lt64(EndOf(h), h.from) THEN -EINVAL
    ELSE IF command \in {NBD_CMD_READ, NBD_CMD_WRITE} /\ h.len > NBD_MAX_BUFFER_SIZE
         THEN -EINVAL
    ELSE IF command \in {NBD_CMD_READ, NBD_CMD_WRITE} /\ ~alloc THEN -ENOMEM
    ELSE IF command = NBD_CMD_WRITE THEN 1
    ELSE 0

ReceiveHeader(W, c, s, h, alloc, ub) ==
    LET rc == ReceiveRc(h, alloc)
        request == [type |-> h.type, handle |-> h.handle, from |-> h.from, len |-> h.len]
        data == rc \in {0, 1} /\ Command(h) \in {NBD_CMD_READ, NBD_CMD_WRITE}
        W1 == [W EXCEPT !.co[c][s].request = request,
                        !.co[c][s].g.got = (h.magic = NBD_REQUEST_MAGIC),
                        !.co[c][s].data = data]
    IN  IF rc = 1 THEN [W1 EXCEPT !.co[c][s].pc = "recv_data"]
        ELSE ReceiveEnd(W1, c, s, rc, ub)

(***************************************************************************)
(* Newstyle negotiation (nbd_co_client_start, nbd_negotiate,               *)
(* nbd_negotiate_options and the option handlers), cut at the socket       *)
(* reads and writes, where the coroutine yields to the main loop.          *)
(***************************************************************************)
NBD_OPT_EXPORT_NAME == 1
NBD_OPT_ABORT == 2
NBD_OPT_LIST == 3
NBD_FLAG_C_FIXED_NEWSTYLE == 1
MaxNameLength == 255

\* An option reply: NBD_REP_MAGIC, the option it answers, the reply type
\* and, for NBD_REP_SERVER, the export name.
Rep(type, opt, name) == [type |-> type, opt |-> opt, name |-> name]

\* nbd_negotiate_send_rep, all four fields written
nbd_negotiate_send_rep(W, c, type, opt) ==
    [W EXCEPT !.neg[c].out = Append(@, Rep(type, opt, NULLNAME))]

\* nbd_negotiate_send_rep_list, all six fields written
nbd_negotiate_send_rep_list(W, c, e) ==
    [W EXCEPT !.neg[c].out = Append(@, Rep("NBD_REP_SERVER", NBD_OPT_LIST, W.ex[e].name))]

\* nbd_co_client_start when nbd_negotiate returned an error
NegotiateFailed(W, c, ub) ==
    client_close([W EXCEPT !.neg[c].pc = "failed",
                           !.neg[c].res = IF @ = "pending" THEN "fail" ELSE @],
                 c, ub)

\* nbd_co_client_start when nbd_negotiate returned 0.  Its local exp is
\* the export nbd_client_new was given: NULL for a newstyle client, so
\* nothing is inserted here.
NegotiateDone(W, c) ==
    nbd_set_handlers([W EXCEPT !.neg[c].pc = "done",
                               !.cl[c].send_lock =
                                   [locked |-> FALSE, queue |-> <<>>, woken |-> NULL]],
                     c)

\* nbd_co_client_start of a client nbd_client_new was given an export:
\* its local exp is that export, and the client joins its list.
NegotiateDoneOldstyle(W, c) ==
    LET e == W.cl[c].exp IN
    [NegotiateDone(W, c) EXCEPT !.ex[e].clients = Append(@, c)]

\* QTAILQ_FIRST and QTAILQ_NEXT on the registry
FirstExport(W) == IF W.exports = <<>> THEN NULL ELSE Head(W.exports)

NextExport(W, e) ==
    LET at == {i \in 1..Len(W.exports) : W.exports[i] = e}
        i == CHOOSE i \in at : TRUE
    IN  IF at = {} \/ i = Len(W.exports) THEN NULL ELSE W.exports[i + 1]

\* The QTAILQ_FOREACH loop of nbd_negotiate_handle_list arrives at export
\* e: it sends the reply for e, or the final NBD_REP_ACK after the last.
ListLoop(W, c, e) ==
    IF e = NULL
    THEN [W EXCEPT !.neg[c].pc = "list_ack", !.neg[c].cursor = NULL]
    ELSE [W EXCEPT !.neg[c].pc = "list_rep", !.neg[c].cursor = e]

\* A LIST with payload answered without reading the payload
nbd_negotiate_handle_list_nodrop(W, c, length) ==
    IF length # 0
    THEN [W EXCEPT !.neg[c].pc = "err_invalid"]
    ELSE ListLoop([W EXCEPT !.neg[c].res = "pending",
                            !.neg[c].snap = [i \in 1..Len(W.bindlog) |->
                                                W.ex[W.bindlog[i]].name]],
                  c, FirstExport(W))

nbd_negotiate_handle_list(W, c, length) ==
    IF length # 0
    THEN [W EXCEPT !.neg[c].pc = "drop"]
    ELSE ListLoop([W EXCEPT !.neg[c].res = "pending",
                            !.neg[c].snap = [i \in 1..Len(W.bindlog) |->
                                                W.ex[W.bindlog[i]].name]],
                  c, FirstExport(W))

\* nbd_negotiate_handle_export_name up to the read of the name
nbd_negotiate_handle_export_name(W, c, length, ub) ==
    IF length > MaxNameLength THEN NegotiateFailed(W, c, ub)
    ELSE [W EXCEPT !.neg[c].pc = "name"]

\* The buffer name[] read as a C string, as strcmp reads it: the bytes
\* before the first 0.
CString(name) == IF name = NulName THEN "a" ELSE name

\* nbd_negotiate_handle_export_name once the name is read, and the
\* return into nbd_negotiate, which goes on to write the export's size
\* and flags; the local length of nbd_negotiate_options is gone.
ExportSelected(W, c, name, ub) ==
    LET e == nbd_export_find(W, CString(name))
        Attach(V) == IF Halted(V) THEN V
                     ELSE [V EXCEPT !.neg[c].pc = "part2", !.neg[c].length = 0]
    IN  IF e = NULL THEN NegotiateFailed(W, c, ub)
        ELSE IF W.ex[e].nbdflags > NBD_CMD_MASK_COMMAND
             THEN Abort(W, "nbd_negotiate: assert((client->exp->nbdflags & ~65535) == 0)")
        ELSE Attach(nbd_export_get([W EXCEPT !.cl[c].exp = e,
                                             !.ex[e].clients = Append(@, c)], e))

\* The loop of nbd_negotiate_options once the option header h is read.
nbd_negotiate_options(W, c, h, ub) ==
    LET W1 == [W EXCEPT !.neg[c].opt = h.id, !.neg[c].length = h.length,
                        !.neg[c].out = <<>>, !.neg[c].snap = <<>>,
                        !.neg[c].res = "none", !.neg[c].dropped = 0]
    IN  IF ~h.magic \/ h.id = NBD_OPT_ABORT THEN NegotiateFailed(W1, c, ub)
        ELSE IF h.id = NBD_OPT_LIST THEN nbd_negotiate_handle_list(W1, c, h.length)
        ELSE IF h.id = NBD_OPT_EXPORT_NAME
             THEN nbd_negotiate_handle_export_name(W1, c, h.length, ub)
        ELSE [W1 EXCEPT !.neg[c].pc = "unsup"]

(***************************************************************************)
(* Scenarios: the export's configuration and what the peer may send.       *)
(***************************************************************************)
ExportSize == 1024
ParkHandle == 1

Hdr(type, handle, from, len) ==
    [magic |-> NBD_REQUEST_MAGIC, type |-> type, handle |-> handle,
     from |-> from, len |-> len]

\* (from, len) pairs: inside the export, past its end, wrapping around
\* 2^64, and longer than NBD_MAX_BUFFER_SIZE.
InRange == <<U64Of(0), 512>>
PastEnd == <<U64Of(512), 1024>>
Wrapping == <<MaxFrom, 1024>>
TooLong == <<U64Of(0), NBD_MAX_BUFFER_SIZE + 512>>

Types == {NBD_CMD_READ, NBD_CMD_READ + NBD_CMD_FLAG_FUA,
          NBD_CMD_WRITE, NBD_CMD_WRITE + NBD_CMD_FLAG_FUA,
          NBD_CMD_DISC, NBD_CMD_FLUSH, NBD_CMD_TRIM, 5}

\* "own" is a running connection whose export is given up by its creator
\* (ExportPut) and renamed while the client is attached.  "old" is a
\* client given its export by nbd_client_new, at the oldstyle handshake.
Scenarios == {"wide", "pipe", "flood", "ro", "list", "own", "old"}

Frames(sc) ==
    CASE sc = "wide" ->
             {Hdr(t, 7, r[1], r[2]) : t \in Types, r \in {InRange, PastEnd, Wrapping}}
             \cup {Hdr(t, 7, TooLong[1], TooLong[2]) : t \in {NBD_CMD_READ, NBD_CMD_WRITE}}
             \cup {[Hdr(NBD_CMD_READ, 7, U64Of(0), 512) EXCEPT !.magic = 0]}
      [] sc = "pipe" ->
             {Hdr(NBD_CMD_READ, 1, U64Of(0), 512),
              Hdr(NBD_CMD_WRITE + NBD_CMD_FLAG_FUA, 2, U64Of(512), 512),
              Hdr(NBD_CMD_TRIM, 2, U64Of(512), 1024)}
      [] sc = "flood" ->
             {Hdr(NBD_CMD_FLUSH, ParkHandle, U64Of(0), 0),
              Hdr(NBD_CMD_READ, 2, U64Of(0), 512)}
      [] sc = "ro" ->
             {Hdr(NBD_CMD_WRITE, 7, U64Of(0), 512),
              Hdr(NBD_CMD_READ, 7, U64Of(0), 512)}
      [] sc \in {"list", "own", "old"} ->
             {Hdr(NBD_CMD_TRIM, 7, U64Of(0), 512)}

\* What the peer may send during the newstyle negotiation.
ClientFlags == {0, NBD_FLAG_C_FIXED_NEWSTYLE, 2}
OptionLengths(id) ==
    IF id = NBD_OPT_EXPORT_NAME THEN {0, 1, 3, MaxNameLength, MaxNameLength + 1}
    ELSE IF id = NBD_OPT_ABORT THEN {0}
    ELSE {0, 1}
OptionFrames ==
    {h \in [magic : {TRUE},
             id : {NBD_OPT_EXPORT_NAME, NBD_OPT_ABORT, NBD_OPT_LIST, 9},
             length : 0..(MaxNameLength + 1)] :
        h.length \in OptionLengths(h.id)}
    \cup {[magic |-> FALSE, id |-> NBD_OPT_LIST, length |-> 0]}
NameLength(name) ==
    IF name = LongName THEN MaxNameLength
    ELSE IF name = NulName THEN 3
    ELSE IF name = "" THEN 0
    ELSE 1
NamesOfLength(n) == {name \in Names \cup {"", "z", NulName} : NameLength(name) = n}

Depth(sc) == IF sc = "pipe" THEN MaxDepth ELSE 1

ExportFlags(sc) == IF sc = "ro" THEN NBD_FLAG_READ_ONLY ELSE 0

\* errno values a backend operation may return
BackendRets == {0, -EIO, -EFBIG, -EROFS}

(***************************************************************************)
(* Stalled FLUSH requests.  Any number of coroutines (up to the cap) can   *)
(* wait in blk_co_flush for the same FLUSH frame; they are all in the      *)
(* state ParkedCo, so they are counted in bg instead of each taking a      *)
(* slot.  A slot is taken again when the flush of one of them completes.   *)
(***************************************************************************)
ParkedCo ==
    [FreeCo EXCEPT !.pc = "flush",
                   !.request = [type |-> NBD_CMD_FLUSH, handle |-> ParkHandle,
                                from |-> U64Of(0), len |-> 0],
                   !.reply = [handle |-> ParkHandle, error |-> 0],
                   !.g.got = TRUE, !.g.ncalls = 1]

Park(W, c, s) ==
    IF ~Halted(W) /\ W.co[c][s] = ParkedCo
    THEN [W EXCEPT !.bg[c] = @ + 1, !.co[c][s] = FreeCo]
    ELSE W

FreeSlots(c) == {s \in 1..Depth(scn) : co[c][s].pc \in {"free", "done"}}
FirstFree(c) == CHOOSE s \in FreeSlots(c) : \A t \in FreeSlots(c) : s <= t

ReadHandler(c) == \E x \in Ctxs : hnd[c][x].rd
WriteHandler(c) == \E x \in Ctxs : hnd[c][x].wr

(***************************************************************************)
(* Actions.                                                                *)
(***************************************************************************)
\* nbd_read that enters a new coroutine whether or not one is receiving
NbdReadSpawn_always(c) ==
    /\ abort = "none"
    /\ ReadHandler(c)
    /\ FreeSlots(c) # {}
    /\ LET s == FirstFree(c)
           W1 == nbd_request_get(World, c, s)
           W2 == [W1 EXCEPT !.cl[c].recv_coroutine = s]
           W3 == nbd_update_can_read(W2, c)
       IN  IF cl[c].closing THEN Apply(World)
           ELSE IF Halted(W1) THEN Apply(W1)
           ELSE Apply([W3 EXCEPT !.co[c][s].pc = "recv_hdr"])

\* nbd_read with no receive coroutine: a new nbd_trip coroutine is entered
\* and runs until nbd_receive_request waits for the header.
NbdReadSpawn(c) ==
    /\ abort = "none"
    /\ ReadHandler(c)
    /\ cl[c].recv_coroutine = NULL
    /\ FreeSlots(c) # {}
    /\ LET s == FirstFree(c)
           W1 == nbd_request_get(World, c, s)
           W2 == [W1 EXCEPT !.cl[c].recv_coroutine = s]
           W3 == nbd_update_can_read(W2, c)
       IN  IF cl[c].closing THEN Apply(World)
           ELSE IF Halted(W1) THEN Apply(W1)
           ELSE Apply([W3 EXCEPT !.co[c][s].pc = "recv_hdr"])

\* nbd_read with a receive coroutine waiting for the header: read_sync
\* returns and the coroutine runs on.
RecvHdr(c, s) ==
    /\ abort = "none"
    /\ ReadHandler(c)
    /\ cl[c].recv_coroutine = s
    /\ co[c][s].pc = "recv_hdr"
    /\ \E ub \in FreedReads :
       \/ /\ ~cl[c].shut
          /\ Apply(ReceiveEnd(World, c, s, -EAGAIN, ub))
       \/ Apply(ReceiveEnd(Ghost(World, c, s, "iofail", TRUE), c, s, -EIO, ub))
       \/ \E h \in Frames(scn), alloc \in BOOLEAN :
              Apply(Park(ReceiveHeader(World, c, s, h, alloc, ub), c, s))

\* nbd_read with a receive coroutine waiting for the WRITE payload.
RecvData(c, s) ==
    /\ abort = "none"
    /\ ReadHandler(c)
    /\ cl[c].recv_coroutine = s
    /\ co[c][s].pc = "recv_data"
    /\ \E ub \in FreedReads :
       \/ Apply(ReceiveEnd(World, c, s, 0, ub))
       \/ Apply(ReceiveEnd(Ghost(World, c, s, "iofail", TRUE), c, s, -EIO, ub))

\* The backend operation a coroutine waits in completes.
BackendDone(c, s) ==
    /\ abort = "none"
    /\ co[c][s].pc \in BackendPcs
    /\ ex[cl[c].exp].ctx # NULL
    /\ \E ret \in BackendRets : Apply(AfterBackend(World, c, s, ret))

\* The flush of one of the stalled FLUSH requests completes.
BackendDoneParked(c) ==
    /\ abort = "none"
    /\ bg[c] > 0
    /\ ex[cl[c].exp].ctx # NULL
    /\ FreeSlots(c) # {}
    /\ LET s == FirstFree(c)
           W1 == [World EXCEPT !.bg[c] = @ - 1, !.co[c][s] = ParkedCo]
       IN  \E ret \in BackendRets : Apply(AfterBackend(W1, c, s, ret))

\* nbd_restart_write while the reply header is being written.
SendHdr(c, s) ==
    /\ abort = "none"
    /\ WriteHandler(c)
    /\ cl[c].send_coroutine = s
    /\ co[c][s].pc = "send_hdr"
    /\ \E ub \in FreedReads :
       \/ /\ ~cl[c].shut
          /\ LET r == co[c][s]
                 more == r.len # 0
                 W1 == WireWrite(World, c, s, ~more)
                 W2 == [W1 EXCEPT !.co[c][s].g.nrep = @ + 1,
                                  !.co[c][s].g.whandle = r.reply.handle,
                                  !.co[c][s].g.werror = r.reply.error]
             IN  IF more THEN Apply([W2 EXCEPT !.co[c][s].pc = "send_data"])
                 ELSE Apply(SendEnd(W2, c, s, 0, ub))
       \/ /\ ~cl[c].shut
          /\ Apply(WireWrite(World, c, s, FALSE))
       \/ Apply(SendEnd(Ghost(World, c, s, "iofail", TRUE), c, s, -EIO, ub))

\* nbd_restart_write while the READ payload is being written.
SendData(c, s) ==
    /\ abort = "none"
    /\ WriteHandler(c)
    /\ cl[c].send_coroutine = s
    /\ co[c][s].pc = "send_data"
    /\ \E ub \in FreedReads :
       \/ /\ ~cl[c].shut
          /\ Apply(SendEnd(Ghost(WireWrite(World, c, s, TRUE), c, s, "wdata", TRUE),
                           c, s, 0, ub))
       \/ Apply(SendEnd(Ghost(World, c, s, "iofail", TRUE), c, s, -EIO, ub))

\* The registry is used by one party at a time: a management operation
\* on it does not run while a handshake is inside the LIST loop.
RegistrySerialized == \A c \in Clients : neg[c].pc # "list_rep"

\* The owner of the export closes it.
ExportClose(e) ==
    /\ abort = "none"
    /\ ex[e].alive
    /\ RegistrySerialized
    /\ Apply(nbd_export_close(World, e))

\* Management closes every export (nbd_export_close_all).
ExportCloseAll ==
    /\ abort = "none"
    /\ RegistrySerialized
    /\ Apply(nbd_export_close_all(World))

\* blk_aio_detach: the backend leaves its AioContext.  The block layer has
\* drained the backend, so no coroutine waits in a backend operation.
AioDetach(e) ==
    /\ abort = "none"
    /\ ex[e].alive /\ ex[e].ctx # NULL
    /\ \A i \in 1..Len(ex[e].clients) :
           LET c == ex[e].clients[i] IN
           bg[c] = 0 /\ \A s \in Slots : co[c][s].pc \notin BackendPcs
    /\ LET RECURSIVE Unset(_, _)
           Unset(W, q) == IF q = <<>> THEN W
                          ELSE Unset(nbd_unset_handlers(W, Head(q)), Tail(q))
           W1 == Unset(World, ex[e].clients)
       IN  Apply([W1 EXCEPT !.ex[e].ctx = NULL])

\* blk_aio_attached: the backend enters AioContext x.
AioAttached(e, x) ==
    /\ abort = "none"
    /\ ex[e].alive /\ ex[e].ctx = NULL
    /\ LET RECURSIVE Set(_, _)
           Set(W, q) == IF q = <<>> THEN W
                        ELSE Set(nbd_set_handlers(W, Head(q)), Tail(q))
           W1 == [World EXCEPT !.ex[e].ctx = x]
       IN  Apply(Set(W1, ex[e].clients))

\* Management binds export e to a name, or unbinds it.
\* The caller of nbd_export_new gives up the reference it was handed.
ExportPut(e) ==
    /\ abort = "none"
    /\ scn = "own"
    /\ ex[e].alive /\ ex[e].held
    /\ RegistrySerialized
    /\ Apply(nbd_export_put([World EXCEPT !.ex[e].held = FALSE], e))

SetName(e, name) ==
    /\ abort = "none"
    /\ scn \in {"list", "own"}
    /\ ex[e].alive
    /\ RegistrySerialized
    /\ LET W1 == nbd_export_set_name(World, e, name) IN
       Apply([W1 EXCEPT !.bindlog = IF name = NULLNAME THEN SeqRemove(@, e)
                                    ELSE Append(SeqRemove(@, e), e)])

\* nbd_negotiate: the first part of the newstyle header is written.
NegHello(c) ==
    /\ abort = "none"
    /\ neg[c].pc = "hello"
    /\ \E ub \in FreedReads :
       \/ /\ ~cl[c].shut
          /\ Apply([World EXCEPT !.neg[c].pc = "flags"])
       \/ Apply(NegotiateFailed(World, c, ub))

\* The client flags read and taken whatever their value
NegFlags_lenient(c) ==
    /\ abort = "none"
    /\ neg[c].pc = "flags"
    /\ \E ub \in FreedReads :
       \/ /\ ~cl[c].shut
          /\ \E flags \in ClientFlags :
                Apply([World EXCEPT
                           !.neg[c].pc = "option",
                           !.neg[c].refused =
                               flags # 0 /\ flags # NBD_FLAG_C_FIXED_NEWSTYLE])
       \/ Apply(NegotiateFailed(World, c, ub))

\* nbd_negotiate_options: the client flags are read.
NegFlags(c) ==
    /\ abort = "none"
    /\ neg[c].pc = "flags"
    /\ \E ub \in FreedReads :
       \/ /\ ~cl[c].shut
          /\ \E flags \in ClientFlags :
                IF flags # 0 /\ flags # NBD_FLAG_C_FIXED_NEWSTYLE
                THEN Apply(NegotiateFailed([World EXCEPT !.neg[c].refused = TRUE],
                                           c, ub))
                ELSE Apply([World EXCEPT !.neg[c].pc = "option"])
       \/ Apply(NegotiateFailed(World, c, ub))

\* nbd_negotiate_options: an option header (magic, option, length) is read.
NegOption(c) ==
    /\ abort = "none"
    /\ neg[c].pc = "option"
    /\ \E ub \in FreedReads :
       \/ /\ ~cl[c].shut
          /\ \E h \in OptionFrames : Apply(nbd_negotiate_options(World, c, h, ub))
       \/ Apply(NegotiateFailed(World, c, ub))

\* nbd_negotiate_handle_list with a payload: nbd_negotiate_drop_sync.
NegDrop(c) ==
    /\ abort = "none"
    /\ neg[c].pc = "drop"
    /\ \E ub \in FreedReads :
       \/ /\ ~cl[c].shut
          /\ Apply([World EXCEPT !.neg[c].pc = "err_invalid",
                                  !.neg[c].dropped = neg[c].length])
       \/ Apply(NegotiateFailed(World, c, ub))

\* An option reply without payload is written: NBD_REP_ERR_INVALID for a
\* LIST with payload, NBD_REP_ERR_UNSUP for an unknown option, NBD_REP_ACK
\* at the end of a LIST.
NegRep(c) ==
    /\ abort = "none"
    /\ neg[c].pc \in {"err_invalid", "unsup", "list_ack"}
    /\ \E ub \in FreedReads :
       \/ /\ ~cl[c].shut
          /\ LET n == neg[c] IN
             CASE n.pc = "err_invalid" ->
                      Apply([nbd_negotiate_send_rep(World, c, "NBD_REP_ERR_INVALID",
                                                    NBD_OPT_LIST)
                                 EXCEPT !.neg[c].pc = "option"])
               [] n.pc = "unsup" ->
                      Apply(NegotiateFailed(
                                nbd_negotiate_send_rep(World, c, "NBD_REP_ERR_UNSUP", n.opt),
                                c, ub))
               [] n.pc = "list_ack" ->
                      Apply([nbd_negotiate_send_rep(World, c, "NBD_REP_ACK", NBD_OPT_LIST)
                                 EXCEPT !.neg[c].pc = "option", !.neg[c].res = "ok"])
       \/ Apply(NegotiateFailed(World, c, ub))

\* nbd_negotiate_handle_list: the NBD_REP_SERVER reply of one export is
\* written and the loop moves to the next export.
NegListRep(c) ==
    /\ abort = "none"
    /\ neg[c].pc = "list_rep"
    /\ \E ub \in FreedReads :
       \/ /\ ~cl[c].shut
          /\ LET e == neg[c].cursor IN
             Apply(ListLoop(nbd_negotiate_send_rep_list(World, c, e), c,
                            NextExport(World, e)))
       \/ Apply(NegotiateFailed(World, c, ub))

\* nbd_negotiate_handle_export_name: the name is read.
NegName(c) ==
    /\ abort = "none"
    /\ neg[c].pc = "name"
    /\ \E ub \in FreedReads :
       \/ /\ ~cl[c].shut
          /\ \E name \in NamesOfLength(neg[c].length) :
                Apply(ExportSelected(World, c, name, ub))
       \/ Apply(NegotiateFailed(World, c, ub))

\* nbd_negotiate: the second part of the newstyle header is written.
NegPart2(c) ==
    /\ abort = "none"
    /\ neg[c].pc = "part2"
    /\ \E ub \in FreedReads :
       \/ /\ ~cl[c].shut
          /\ Apply(NegotiateDone(World, c))
       \/ Apply(NegotiateFailed(World, c, ub))

\* nbd_negotiate of a client with an export: the oldstyle header of 152
\* bytes is written.
NegOldstyle(c) ==
    /\ abort = "none"
    /\ neg[c].pc = "old"
    /\ \E ub \in FreedReads :
       \/ /\ ~cl[c].shut
          /\ Apply(NegotiateDoneOldstyle(World, c))
       \/ Apply(NegotiateFailed(World, c, ub))

(***************************************************************************)
(* The data path of nbd_trip: a WRITE and then a READ of the same range.   *)
(* The backend is addressed in sectors.  A sector of the disk or of a      *)
(* buffer is represented by a stamp: 0 for what the disk held at first, i  *)
(* for the i-th whole sector of the data the client wrote.  The bytes of a *)
(* buffer behind its last whole sector are its tail: "none" when there are *)
(* none, "data" when they are the data written, "other" otherwise.         *)
(***************************************************************************)
DiskSectors == 3
BlankDisk == [i \in 0..(DiskSectors - 1) |-> 0]

\* The requests of the round trip: within the export, offsets and lengths
\* that are multiples of the sector size and that are not.
RoundTrips ==
    {r \in [pc : {"write"}, from : {0, 100, 512, 612}, len : {100, 512, 612, 1024},
            dev_offset : {0, BDRV_SECTOR_SIZE}, fua : BOOLEAN] :
        r.from + r.len <= ExportSize}

\* blk_write and blk_read move nb_sectors whole sectors.
blk_write(d, sector, buf, nb_sectors) ==
    [i \in DOMAIN d |->
        IF i >= sector /\ i < sector + nb_sectors THEN buf.whole[i - sector + 1] ELSE d[i]]

blk_read(d, sector, buf, nb_sectors) ==
    [buf EXCEPT !.whole = [i \in DOMAIN @ |-> IF i <= nb_sectors THEN d[sector + i - 1] ELSE @[i]]]

\* nbd_trip, case NBD_CMD_WRITE, on a writable export.  data is the
\* payload as nbd_co_receive_request stored it in req->data.
RtWrite ==
    /\ rt.pc = "write"
    /\ LET data == [whole |-> [i \in 1..(rt.len \div BDRV_SECTOR_SIZE) |-> i],
                    tail |-> IF rt.len % BDRV_SECTOR_SIZE = 0 THEN "none" ELSE "data"]
           sector == (rt.from + rt.dev_offset) \div BDRV_SECTOR_SIZE
           nb_sectors == rt.len \div BDRV_SECTOR_SIZE
       IN  \E ret \in {0, -EIO}, flushed \in {0, -EIO} :
              IF ret < 0
              THEN /\ rt' = [rt EXCEPT !.pc = "failed"]
                   /\ disk' = disk
              ELSE /\ disk' = blk_write(disk, sector, data, nb_sectors)
                   /\ rt' = IF rt.fua /\ flushed < 0 THEN [rt EXCEPT !.pc = "failed"]
                            ELSE [pc |-> "read", from |-> rt.from, len |-> rt.len,
                                  dev_offset |-> rt.dev_offset, fua |-> rt.fua,
                                  data |-> data]
    /\ UNCHANGED <<cl, co, bg, ex, exports, hnd, wire, neg, bindlog, abort, scn>>

\* nbd_trip, case NBD_CMD_READ, for the range just written.  The buffer
\* blk_try_blockalign returned is not initialised: what blk_read does not
\* fill holds whatever the memory held, the data of the WRITE or not.
RtRead ==
    /\ rt.pc = "read"
    /\ LET sector == (rt.from + rt.dev_offset) \div BDRV_SECTOR_SIZE
           nb_sectors == rt.len \div BDRV_SECTOR_SIZE
           tails == IF rt.len % BDRV_SECTOR_SIZE = 0 THEN {"none"} ELSE {"data", "other"}
       IN  \E tail \in tails, ret \in {0, -EIO} :
              LET buf == [whole |-> [i \in 1..nb_sectors |-> 0], tail |-> tail] IN
              IF ret < 0
              THEN rt' = [pc |-> "failed"]
              ELSE rt' = [pc |-> "replied", from |-> rt.from, len |-> rt.len,
                          dev_offset |-> rt.dev_offset,
                          data |-> rt.data, error |-> 0,
                          payload |-> blk_read(disk, sector, buf, nb_sectors)]
    /\ UNCHANGED <<cl, co, bg, ex, exports, hnd, wire, neg, bindlog, abort, scn, disk>>

(***************************************************************************)
(* Initial states.                                                         *)
(***************************************************************************)
NoClient ==
    [freed |-> FALSE, refcount |-> 0, has_close |-> FALSE, exp |-> NULL, sock |-> -1,
     recv_coroutine |-> NULL, send_coroutine |-> NULL,
     send_lock |-> [locked |-> FALSE, queue |-> <<>>, woken |-> NULL],
     can_read |-> FALSE, nb_requests |-> 0, closing |-> FALSE,
     shut |-> FALSE, close_calls |-> 0, uaf |-> FALSE]

\* nbd_client_new followed by a successful oldstyle nbd_co_client_start
RunningClient(e) ==
    [NoClient EXCEPT !.refcount = 1, !.has_close = TRUE, !.exp = e, !.sock = 1,
                     !.can_read = TRUE]

\* An export.  held: the caller of nbd_export_new still has the reference
\* that call returned.
NoExport ==
    [alive |-> FALSE, refcount |-> 0, name |-> NULLNAME, clients |-> <<>>,
     ctx |-> NULL, size |-> U64Of(0), nbdflags |-> 0, close_calls |-> 0, blk |-> FALSE,
     held |-> FALSE]

\* nbd_export_new keeping the size as it was given
NewExport_unrounded(size, flags) ==
    [NoExport EXCEPT !.alive = TRUE, !.refcount = 1, !.held = TRUE, !.ctx = 1, !.blk = TRUE,
                     !.size = U64Of(size), !.nbdflags = flags]

\* nbd_export_new
NewExport(size, flags) ==
    [NoExport EXCEPT !.alive = TRUE, !.refcount = 1, !.held = TRUE, !.ctx = 1, !.blk = TRUE,
                     !.size = U64Of(size - (size % BDRV_SECTOR_SIZE)), !.nbdflags = flags]

\* nbd_export_new(blk, dev_offset, size, nbdflags, close, errp), length
\* being what blk_getlength(blk) returns: the export, or NoExport when the
\* function fails, frees exp and returns NULL.
nbd_export_new(size, length, nbdflags) ==
    LET exp_size == IF size < 0 THEN length ELSE size IN
    IF exp_size < 0 THEN NoExport ELSE NewExport(exp_size, nbdflags)

\* Export 1 created, named "a" and serving client 1.
InitPipeline(sc) ==
    /\ scn = sc
    /\ cl = [c \in Clients |-> RunningClient(1)]
    /\ co = [c \in Clients |-> [s \in Slots |-> FreeCo]]
    /\ bg = [c \in Clients |-> 0]
    /\ ex = [e \in Exps |->
               IF e = 1
               THEN [NewExport(ExportSize, ExportFlags(sc)) EXCEPT
                         !.refcount = 3, !.name = "a", !.clients = <<1>>]
               ELSE NoExport]
    /\ exports = <<1>>
    /\ hnd = [c \in Clients |-> [NoHandlers EXCEPT ![1] = [rd |-> TRUE, wr |-> FALSE]]]
    /\ wire = [c \in Clients |-> [owner |-> NULL, torn |-> FALSE]]
    /\ neg = [c \in Clients |-> NoNeg]
    /\ bindlog = <<1>>
    /\ abort = "none"

\* nbd_client_new(NULL, csock, close_fn): a newstyle client whose
\* negotiation coroutine is writing the first part of the header.
NewstyleClient ==
    [NoClient EXCEPT !.refcount = 1, !.has_close = TRUE, !.sock = 1, !.can_read = TRUE]

\* Two exports created and not yet named, and one newstyle client.
InitNegotiation(sc) ==
    /\ scn = sc
    /\ cl = [c \in Clients |-> NewstyleClient]
    /\ co = [c \in Clients |-> [s \in Slots |-> FreeCo]]
    /\ bg = [c \in Clients |-> 0]
    /\ ex = [e \in Exps |-> NewExport(ExportSize, 0)]
    /\ exports = <<>>
    /\ hnd = [c \in Clients |-> NoHandlers]
    /\ wire = [c \in Clients |-> [owner |-> NULL, torn |-> FALSE]]
    /\ neg = [c \in Clients |-> [NoNeg EXCEPT !.pc = "hello"]]
    /\ bindlog = <<>>
    /\ abort = "none"

\* nbd_client_new(exp, ...) has returned: nbd_co_client_start has taken
\* its reference to the export and waits in nbd_negotiate to write the
\* header; the client is in no list and has no handler.
InitOldstyle(sc) ==
    /\ scn = sc
    /\ cl = [c \in Clients |-> RunningClient(1)]
    /\ co = [c \in Clients |-> [s \in Slots |-> FreeCo]]
    /\ bg = [c \in Clients |-> 0]
    /\ ex = [e \in Exps |->
               IF e = 1
               THEN [NewExport(ExportSize, ExportFlags(sc)) EXCEPT
                         !.refcount = 3, !.name = "a"]
               ELSE NoExport]
    /\ exports = <<1>>
    /\ hnd = [c \in Clients |-> NoHandlers]
    /\ wire = [c \in Clients |-> [owner |-> NULL, torn |-> FALSE]]
    /\ neg = [c \in Clients |-> [NoNeg EXCEPT !.pc = "old"]]
    /\ bindlog = <<1>>
    /\ abort = "none"

Init ==
    /\ \E sc \in Scenarios :
           IF sc = "list" THEN InitNegotiation(sc)
           ELSE IF sc = "old" THEN InitOldstyle(sc)
           ELSE InitPipeline(sc)
    /\ disk = BlankDisk
    /\ rt = [pc |-> "idle"]

Next ==
    \/ \E c \in Clients : NbdReadSpawn(c)
    \/ \E c \in Clients, s \in Slots : RecvHdr(c, s)
    \/ \E c \in Clients, s \in Slots : RecvData(c, s)
    \/ \E c \in Clients, s \in Slots : BackendDone(c, s)
    \/ \E c \in Clients : BackendDoneParked(c)
    \/ \E c \in Clients, s \in Slots : SendHdr(c, s)
    \/ \E c \in Clients, s \in Slots : SendData(c, s)
    \/ \E e \in Exps : ExportClose(e)
    \/ ExportCloseAll
    \/ \E e \in Exps : AioDetach(e)
    \/ \E e \in Exps, x \in Ctxs : AioAttached(e, x)
    \/ \E e \in Exps, name \in Names \cup {NULLNAME} : SetName(e, name)
    \/ \E e \in Exps : ExportPut(e)
    \/ \E c \in Clients : NegHello(c)
    \/ \E c \in Clients : NegFlags(c)
    \/ \E c \in Clients : NegOption(c)
    \/ \E c \in Clients : NegDrop(c)
    \/ \E c \in Clients : NegRep(c)
    \/ \E c \in Clients : NegListRep(c)
    \/ \E c \in Clients : NegName(c)
    \/ \E c \in Clients : NegPart2(c)
    \/ \E c \in Clients : NegOldstyle(c)

Spec == Init /\ [][Next]_vars

\* The round trip of a WRITE and a READ on its own, on the writable export
\* of scenario "wide".
DiskInit ==
    /\ InitPipeline("wide")
    /\ disk = BlankDisk
    /\ rt \in RoundTrips

DiskNext == RtWrite \/ RtRead

DiskSpec == DiskInit /\ [][DiskNext]_vars

\* nbd_export_new on its own: no export and no client yet, the requested
\* size (negative: ask the backend) and the result of blk_getlength drawn
\* around the sector size.
NewInit ==
    /\ scn = "wide"
    /\ cl = [c \in Clients |-> NoClient]
    /\ co = [c \in Clients |-> [s \in Slots |-> FreeCo]]
    /\ bg = [c \in Clients |-> 0]
    /\ ex = [e \in Exps |-> NoExport]
    /\ exports = <<>>
    /\ hnd = [c \in Clients |-> NoHandlers]
    /\ wire = [c \in Clients |-> [owner |-> NULL, torn |-> FALSE]]
    /\ neg = [c \in Clients |-> NoNeg]
    /\ bindlog = <<>>
    /\ abort = "none"
    /\ disk = BlankDisk
    /\ rt \in [pc : {"new"},
               size : {-1, 0, 1, 511, 512, 513, 1023, 1024, 1025, 65536 + 100},
               length : {-EIO, -ENOMEM, 0, 511, 512, 1000, 65536 + 513},
               nbdflags : {0, NBD_FLAG_READ_ONLY}]

ExportNew ==
    /\ rt.pc = "new"
    /\ LET exp == nbd_export_new(rt.size, rt.length, rt.nbdflags) IN
       /\ ex' = [ex EXCEPT ![1] = exp]
       /\ rt' = [rt EXCEPT !.pc = IF exp = NoExport THEN "null" ELSE "created"]
    /\ UNCHANGED <<cl, co, bg, exports, hnd, wire, neg, bindlog, abort, scn, disk>>

NewSpec == NewInit /\ [][ExportNew]_vars

(***************************************************************************)
(* Fair behaviours.  After shutdown(2) the socket of a client is ready     *)
(* for reading and for writing, so the event loop, which dispatches a      *)
(* handler that is registered and ready in infinitely many iterations,     *)
(* runs nbd_read and nbd_restart_write (strong fairness: a handler is      *)
(* not registered while the backend is between two AioContexts).  A        *)
(* backend operation completes, and a backend that left its AioContext     *)
(* enters one (weak fairness).  Nothing is assumed of a peer whose         *)
(* connection is open.  For the handlers and the backend the condition     *)
(* ENABLED <<A>>_vars is written out as a state predicate.                 *)
(***************************************************************************)
NbdReadResume(c) == \E s \in Slots : RecvHdr(c, s) \/ RecvData(c, s)
ReadReady(c) ==
    /\ abort = "none" /\ cl[c].shut /\ ReadHandler(c)
    /\ \E s \in Slots : cl[c].recv_coroutine = s /\ co[c][s].pc \in RecvPcs

NbdRestartWrite(c) == \E s \in Slots : SendHdr(c, s) \/ SendData(c, s)
WriteReady(c) ==
    /\ abort = "none" /\ cl[c].shut /\ WriteHandler(c)
    /\ \E s \in Slots : cl[c].send_coroutine = s /\ co[c][s].pc \in SendPcs

BackendCompletes(c) == (\E s \in Slots : BackendDone(c, s)) \/ BackendDoneParked(c)
BackendPending(c) ==
    /\ abort = "none" /\ cl[c].exp # NULL
    /\ ex[cl[c].exp].ctx # NULL
    /\ \/ \E s \in Slots : co[c][s].pc \in BackendPcs
       \/ bg[c] > 0 /\ FreeSlots(c) # {}

\* SF_vars(NbdReadResume(c)), SF_vars(NbdRestartWrite(c)),
\* WF_vars(BackendCompletes(c)) and WF_vars of the attach callback
Fairness ==
    /\ \A c \in Clients :
          /\ <>[]~ReadReady(c) \/ []<><<NbdReadResume(c)>>_vars
          /\ <>[]~WriteReady(c) \/ []<><<NbdRestartWrite(c)>>_vars
          /\ []<>~BackendPending(c) \/ []<><<BackendCompletes(c)>>_vars
    /\ \A e \in Exps : WF_vars(\E x \in Ctxs : AioAttached(e, x))

FairSpec == Init /\ [][Next]_vars /\ Fairness

\* A peer that has a request pending on the socket and reads its replies:
\* the socket is ready for reading and for writing, so the event loop runs
\* nbd_read, which finds the header of the pending request, a READ, and
\* nbd_restart_write (strong fairness, as above).
ReceivesPending(c) ==
    \E s \in Slots :
        /\ RecvHdr(c, s)
        /\ co'[c][s].g.got /\ Command(co'[c][s].request) = NBD_CMD_READ

PendingFairness ==
    \A c \in Clients :
        /\ \/ <>[]~(/\ abort = "none" /\ ReadHandler(c) /\ ~cl[c].closing
                     /\ cl[c].recv_coroutine = NULL /\ FreeSlots(c) # {})
           \/ []<><<NbdReadSpawn(c)>>_vars
        /\ \/ <>[]~(/\ abort = "none" /\ ReadHandler(c)
                     /\ \E s \in Slots : cl[c].recv_coroutine = s
                                          /\ co[c][s].pc = "recv_hdr")
           \/ []<><<ReceivesPending(c)>>_vars
        /\ \/ <>[]~(/\ abort = "none" /\ WriteHandler(c)
                     /\ \E s \in Slots : cl[c].send_coroutine = s
                                          /\ co[c][s].pc \in SendPcs)
           \/ []<><<NbdRestartWrite(c)>>_vars

\* The flood scenario on its own, with the actions it can take.
FloodInit ==
    /\ InitPipeline("flood")
    /\ disk = BlankDisk
    /\ rt = [pc |-> "idle"]

FloodNext ==
    \/ \E c \in Clients : NbdReadSpawn(c)
    \/ \E c \in Clients, s \in Slots : RecvHdr(c, s)
    \/ \E c \in Clients, s \in Slots : BackendDone(c, s)
    \/ \E c \in Clients : BackendDoneParked(c)
    \/ \E c \in Clients, s \in Slots : SendHdr(c, s)
    \/ \E c \in Clients, s \in Slots : SendData(c, s)
    \/ \E e \in Exps : ExportClose(e)
    \/ \E e \in Exps : AioDetach(e)
    \/ \E e \in Exps, x \in Ctxs : AioAttached(e, x)

FloodSpec == FloodInit /\ [][FloodNext]_vars /\ Fairness /\ PendingFairness

(***************************************************************************)
(* Properties.                                                             *)
(***************************************************************************)
\* Vocabulary of the properties below.
Overflows(r) == Lt64(EndOf(r), r.from)
BeyondExport(c, r) ==
    /\ Command(r) # NBD_CMD_DISC
    /\ ~Overflows(r)
    /\ Lt64(ex[cl[c].exp].size, EndOf(r))
Listing(snap) ==
    [i \in 1..Len(snap) |-> Rep("NBD_REP_SERVER", NBD_OPT_LIST, snap[i])]
    \o <<Rep("NBD_REP_ACK", NBD_OPT_LIST, NULLNAME)>>

\* C1: the in-flight counter nb_requests of every client stays between 0
\* and MAX_NBD_REQUESTS (16), and the assertion at the start of
\* nbd_request_get never fails.
C1_InFlightWithinCap ==
    /\ abort # "nbd_request_get: assert(client->nb_requests <= MAX_NBD_REQUESTS - 1)"
    /\ \A c \in Clients : cl[c].nb_requests \in 0..MAX_NBD_REQUESTS

\* A client with 16 requests in flight: reading is masked.
C1_AtCap ==
    \E c \in Clients :
        /\ cl[c].nb_requests = MAX_NBD_REQUESTS
        /\ bg[c] + Cardinality({s \in Slots : co[c][s].pc \in LivePcs}) = MAX_NBD_REQUESTS
        /\ ~cl[c].can_read
        /\ ~ReadHandler(c)

\* C2: for a request with valid magic and command READ, WRITE, FLUSH or
\* TRIM, never more than one reply header is written, the header written
\* carries the request's handle, and a request that ended without a reply
\* belongs to a client that is closing or met a socket failure.
C2_ExactlyOneReply ==
    \A c \in Clients, s \in Slots :
        LET r == co[c][s] IN
        (r.g.got /\ Command(r.request) \in {NBD_CMD_READ, NBD_CMD_WRITE,
                                               NBD_CMD_FLUSH, NBD_CMD_TRIM}) =>
            /\ r.g.nrep <= 1
            /\ r.g.nrep = 1 => r.g.whandle = r.request.handle
            /\ (r.pc = "done" /\ r.g.nrep = 0) => (cl[c].closing \/ r.g.iofail)

\* A READ that ended with its one reply and payload written, on a client
\* that stays open.
C2_ReadAnswered ==
    \E c \in Clients, s \in Slots :
        LET r == co[c][s] IN
        /\ r.pc = "done" /\ r.g.got /\ Command(r.request) = NBD_CMD_READ
        /\ r.g.nrep = 1 /\ r.g.whandle = r.request.handle /\ r.g.wdata
        /\ ~cl[c].closing

C4_OutOfRange ==
    \A c \in Clients, s \in Slots :
        LET r == co[c][s] IN
        (r.g.got /\ BeyondExport(c, r.request)) =>
            /\ r.g.ncalls = 0 /\ r.pc \notin BackendPcs
            /\ r.g.nrep <= 1
            /\ r.g.nrep = 1 =>
                   r.g.werror = IF r.g.rc = -ENOMEM THEN NBD_ENOMEM ELSE NBD_EINVAL
            /\ r.g.rc = -ENOMEM =>
                   /\ Command(r.request) \in {NBD_CMD_READ, NBD_CMD_WRITE}
                   /\ r.request.len <= NBD_MAX_BUFFER_SIZE
            /\ r.g.closed => r.g.iofail
            /\ (r.pc = "done" /\ r.g.nrep = 0) => r.g.iofail

\* C4 as stated: such a request causes no backend operation, is answered
\* by one reply with error EINVAL and does not close the connection.
C4_AsStated ==
    \A c \in Clients, s \in Slots :
        LET r == co[c][s] IN
        (r.g.got /\ BeyondExport(c, r.request) /\ r.pc = "done") =>
            /\ r.g.ncalls = 0
            /\ r.g.nrep = 1 /\ r.g.werror = NBD_EINVAL
            /\ ~r.g.closed

\* A request beyond the export answered with EINVAL, the client open.
C4_Rejected ==
    \E c \in Clients, s \in Slots :
        LET r == co[c][s] IN
        /\ r.pc = "done" /\ r.g.got /\ BeyondExport(c, r.request)
        /\ r.g.nrep = 1 /\ r.g.werror = NBD_EINVAL /\ r.g.ncalls = 0
        /\ ~cl[c].closing

\* C5: a request whose offset + length wraps around 2^64 closes the
\* connection and gets no reply.
C5_AsStated ==
    \A c \in Clients, s \in Slots :
        LET r == co[c][s] IN
        (r.g.got /\ Overflows(r.request) /\ r.pc = "done") =>
            (r.g.closed /\ r.g.nrep = 0)

\* What the code does with the request of C5: no backend operation and no
\* payload read, one reply with error EINVAL carrying its handle, and the
\* connection is closed only when sending that reply failed.
C5_Overflow ==
    \A c \in Clients, s \in Slots :
        LET r == co[c][s] IN
        (r.g.got /\ Overflows(r.request)) =>
            /\ r.g.ncalls = 0 /\ r.pc \notin BackendPcs \cup {"recv_data"}
            /\ r.g.rc = -EINVAL
            /\ r.g.nrep <= 1
            /\ r.g.nrep = 1 => (r.g.werror = NBD_EINVAL /\ r.g.whandle = r.request.handle)
            /\ r.g.closed => r.g.iofail
            /\ (r.pc = "done" /\ r.g.nrep = 0) => r.g.iofail

\* A wrapping request answered with EINVAL, the client open.
C5_Answered ==
    \E c \in Clients, s \in Slots :
        LET r == co[c][s] IN
        /\ r.pc = "done" /\ r.g.got /\ Overflows(r.request)
        /\ r.g.nrep = 1 /\ r.g.werror = NBD_EINVAL
        /\ ~r.g.closed /\ ~cl[c].closing

\* C6: a request whose backend operation failed is answered by a reply
\* whose error is the NBD mapping of the errno, and it does not close the
\* connection unless sending the reply failed.
C6_BackendError ==
    \A c \in Clients, s \in Slots :
        LET r == co[c][s] IN
        r.g.berr # 0 =>
            /\ r.g.nrep <= 1
            /\ r.g.nrep = 1 =>
                   /\ r.g.werror = system_errno_to_nbd_errno(r.g.berr)
                   /\ r.g.whandle = r.request.handle
            /\ r.g.closed => r.g.iofail
            /\ (r.pc = "done" /\ ~r.g.iofail) => r.g.nrep = 1

\* A request whose backend operation failed with EFBIG was answered with
\* ENOSPC; the client is open and its read handler is registered.
C6_ErrorAnswered ==
    \E c \in Clients, s \in Slots :
        LET r == co[c][s] IN
        /\ r.pc = "done" /\ r.g.berr = EFBIG
        /\ r.g.nrep = 1 /\ r.g.werror = NBD_ENOSPC
        /\ ~cl[c].closing /\ cl[c].can_read /\ ReadHandler(c)

\* C7: under the fairness of FairSpec, a client that is closing is
\* eventually freed.
C7_ClosingLeadsToFreed ==
    \A c \in Clients : cl[c].closing ~> cl[c].freed

\* What the code ensures for C7: a closing client is eventually freed
\* unless its final release stops at the QTAILQ_REMOVE of a client that
\* was never put into the list of its export.
C7_FreedUnlessNotListed ==
    \A c \in Clients :
        cl[c].closing ~>
            (cl[c].freed
             \/ abort = "nbd_client_put: QTAILQ_REMOVE of a client not in the list")

\* A closing client that is not freed because requests are in flight,
\* one of them waiting for the send mutex.
C7_ClosingWithRequests ==
    \E c \in Clients :
        /\ cl[c].closing /\ ~cl[c].freed
        /\ cl[c].nb_requests >= 2
        /\ \E s \in Slots : co[c][s].pc = "lock"

\* C8: no step fails assert(client->closing), and a step in which a
\* client is finally released leaves it closing with no request in flight.
C8_FinalRelease ==
    [][/\ abort' # "nbd_client_put: assert(client->closing)"
       /\ \A c \in Clients :
              (~cl[c].freed /\ cl[c].freed') =>
                  (cl[c].closing' /\ cl[c].nb_requests' = 0)]_vars

\* A client finally released after it served a request.
C8_Released ==
    \E c \in Clients :
        /\ cl[c].freed /\ cl[c].closing /\ cl[c].nb_requests = 0
        /\ cl[c].close_calls = 1
        /\ \E s \in Slots : co[c][s].g.got /\ co[c][s].g.nrep = 1

\* C9 as stated: the close callback of a client is invoked at most once.
C9_CallbackAtMostOnce == \A c \in Clients : cl[c].close_calls <= 1

C11_AsStated ==
    [][\A c \in Clients :
          LET n == neg[c]
              Untouched == \A e \in Exps : /\ ex'[e].clients = ex[e].clients
                                           /\ ex'[e].refcount = ex[e].refcount
              Rejected == /\ neg'[c].pc = "failed" /\ cl'[c].closing
                          /\ cl'[c].exp = NULL /\ Untouched
              Attached(e) ==
                  /\ InSeq(exports, e) /\ NameLength(ex[e].name) = n.length
                  /\ n.length <= MaxNameLength
                  /\ cl'[c].exp = e /\ ~cl'[c].closing
                  /\ ~InSeq(ex[e].clients, c)
                  /\ ex'[e].clients = Append(ex[e].clients, c)
                  /\ ex'[e].refcount = ex[e].refcount + 1
                  /\ \A f \in Exps \ {e} : /\ ex'[f].clients = ex[f].clients
                                            /\ ex'[f].refcount = ex[f].refcount
          IN  /\ (/\ n.pc = "option" /\ neg'[c].opt = NBD_OPT_EXPORT_NAME
                  /\ neg'[c].pc # "option" /\ neg'[c].length > MaxNameLength)
                     => Rejected
              /\ (n.pc = "name" /\ neg'[c].pc # "name") =>
                     \/ neg'[c].pc = "part2" /\ \E e \in Exps : Attached(e)
                     \/ Rejected]_vars

\* What the code does with the option of C11: the name is compared as a
\* C string, so the export attached is the one bound to the bytes before
\* the first 0 of the name received.
C11_ExportName ==
    [][\A c \in Clients :
          LET n == neg[c]
              Untouched == \A e \in Exps : /\ ex'[e].clients = ex[e].clients
                                           /\ ex'[e].refcount = ex[e].refcount
              Rejected == /\ neg'[c].pc = "failed" /\ cl'[c].closing
                          /\ cl'[c].exp = NULL /\ Untouched
              Attached(e) ==
                  /\ InSeq(exports, e)
                  /\ \E name \in NamesOfLength(n.length) : ex[e].name = CString(name)
                  /\ n.length <= MaxNameLength
                  /\ cl'[c].exp = e /\ ~cl'[c].closing
                  /\ ~InSeq(ex[e].clients, c)
                  /\ ex'[e].clients = Append(ex[e].clients, c)
                  /\ ex'[e].refcount = ex[e].refcount + 1
                  /\ \A f \in Exps \ {e} : /\ ex'[f].clients = ex[f].clients
                                            /\ ex'[f].refcount = ex[f].refcount
          IN  /\ (/\ n.pc = "option" /\ neg'[c].opt = NBD_OPT_EXPORT_NAME
                  /\ neg'[c].pc # "option" /\ neg'[c].length > MaxNameLength)
                     => Rejected
              /\ (n.pc = "name" /\ neg'[c].pc # "name") =>
                     \/ neg'[c].pc = "part2" /\ \E e \in Exps : Attached(e)
                     \/ Rejected]_vars

\* A client attached to the export bound to the name of 255 bytes.
C11_Attached ==
    \E c \in Clients, e \in Exps :
        /\ neg[c].pc = "part2" /\ neg[c].opt = NBD_OPT_EXPORT_NAME
        /\ cl[c].exp = e /\ ex[e].name = LongName
        /\ ex[e].clients = <<c>> /\ ex[e].refcount = 3
        /\ ~cl[c].closing

\* C12: for an option other than NBD_OPT_EXPORT_NAME, NBD_OPT_ABORT and
\* NBD_OPT_LIST the server reads and discards the option's payload, sends
\* one NBD_REP_ERR_UNSUP reply that echoes the option, and closes the
\* connection.
C12_AsStated ==
    \A c \in Clients :
        LET n == neg[c] IN
        (n.opt \notin {0, NBD_OPT_EXPORT_NAME, NBD_OPT_ABORT, NBD_OPT_LIST}
         /\ n.pc = "failed" /\ n.out # <<>>) =>
            /\ n.dropped = n.length
            /\ n.out = <<Rep("NBD_REP_ERR_UNSUP", n.opt, NULLNAME)>>
            /\ cl[c].closing

\* What the code does with the option of C12: no byte of the payload is
\* read; the reply, if the write succeeds, is one NBD_REP_ERR_UNSUP that
\* echoes the option; the connection is closed.
C12_Unsupported ==
    \A c \in Clients :
        LET n == neg[c] IN
        n.opt \notin {0, NBD_OPT_EXPORT_NAME, NBD_OPT_ABORT, NBD_OPT_LIST} =>
            /\ n.dropped = 0
            /\ n.pc \in {"unsup", "failed"}
            /\ n.pc = "unsup" => n.out = <<>>
            /\ n.pc = "failed" =>
                   /\ cl[c].closing
                   /\ n.out \in {<<>>, <<Rep("NBD_REP_ERR_UNSUP", n.opt, NULLNAME)>>}

\* An unknown option with one byte of payload answered and the client
\* closed, the payload unread.
C12_Answered ==
    \E c \in Clients :
        LET n == neg[c] IN
        /\ n.opt = 9 /\ n.length = 1 /\ n.dropped = 0
        /\ n.pc = "failed" /\ cl[c].closing
        /\ n.out = <<Rep("NBD_REP_ERR_UNSUP", 9, NULLNAME)>>

\* C13: while the handshake of a client has not completed, no handler of
\* the request pipeline is registered for it and no request of it is read
\* or dispatched; a handshake that failed has closed the client.
C13_AsStated ==
    \A c \in Clients :
        /\ neg[c].pc # "done" =>
               /\ \A x \in Ctxs : ~hnd[c][x].rd /\ ~hnd[c][x].wr
               /\ cl[c].nb_requests = 0
               /\ \A s \in Slots : co[c][s].pc = "free"
        /\ neg[c].pc = "failed" => cl[c].closing

\* What the code ensures for the handshake of C13: until the export is
\* selected no handler is registered and no request is read, and a
\* handshake that failed has closed the client.
C13_BeforeExport ==
    \A c \in Clients :
        /\ (neg[c].pc # "done" /\ cl[c].exp = NULL) =>
               /\ \A x \in Ctxs : ~hnd[c][x].rd /\ ~hnd[c][x].wr
               /\ cl[c].nb_requests = 0
               /\ \A s \in Slots : co[c][s].pc = "free"
        /\ neg[c].pc = "failed" => cl[c].closing

\* A request read while the second part of the header is still to be
\* written.
C13_EarlyRequest ==
    \E c \in Clients, s \in Slots :
        /\ neg[c].pc = "part2" /\ ~cl[c].closing
        /\ co[c][s].pc \in BackendPcs /\ co[c][s].g.got

\* C14: per client at most one coroutine is in the receive phase, and it
\* is the one recv_coroutine names; at most one coroutine is in the send
\* phase, it is the one send_coroutine names, and send_coroutine is set
\* only while that coroutine holds send_lock.
C14_AsStated ==
    \A c \in Clients :
        LET receiving == {s \in Slots : co[c][s].pc \in RecvPcs}
            sending == {s \in Slots : co[c][s].pc \in SendPcs}
        IN  /\ Cardinality(receiving) <= 1
            /\ Cardinality(sending) <= 1
            /\ receiving = {s \in Slots : cl[c].recv_coroutine = s}
            /\ sending = {s \in Slots : cl[c].send_coroutine = s}
            /\ cl[c].send_coroutine # NULL => cl[c].send_lock.locked

\* What the code ensures for the coroutines of C14: one receiver and one
\* sender at most, named by recv_coroutine and send_coroutine; the sender
\* holds send_lock when no handshake of the client has run beside its
\* requests (no option was negotiated on the connection).
C14_OneReceiverOneSender ==
    \A c \in Clients :
        LET receiving == {s \in Slots : co[c][s].pc \in RecvPcs}
            sending == {s \in Slots : co[c][s].pc \in SendPcs}
        IN  /\ Cardinality(receiving) <= 1
            /\ Cardinality(sending) <= 1
            /\ receiving = {s \in Slots : cl[c].recv_coroutine = s}
            /\ sending = {s \in Slots : cl[c].send_coroutine = s}
            /\ (neg[c].opt = 0 /\ cl[c].send_coroutine # NULL) =>
                   cl[c].send_lock.locked

\* One coroutine receives while another one sends.
C14_ReceiverAndSender ==
    \E c \in Clients, r \in Slots, s \in Slots :
        /\ r # s
        /\ cl[c].recv_coroutine = r /\ co[c][r].pc \in RecvPcs
        /\ cl[c].send_coroutine = s /\ co[c][s].pc \in SendPcs
        /\ cl[c].send_lock.locked

\* C15: whenever control is back in the event loop, can_read of a client
\* is true exactly when a receive coroutine exists or fewer than
\* MAX_NBD_REQUESTS requests are in flight.
C15_CanRead ==
    \A c \in Clients :
        ~cl[c].freed =>
            (cl[c].can_read <=>
                (cl[c].recv_coroutine # NULL \/ cl[c].nb_requests < MAX_NBD_REQUESTS))

\* MAX_NBD_REQUESTS requests in flight and none being received: reading
\* is off.
C15_Throttled ==
    \E c \in Clients :
        /\ ~cl[c].freed /\ ~cl[c].closing
        /\ cl[c].nb_requests = MAX_NBD_REQUESTS
        /\ cl[c].recv_coroutine = NULL
        /\ ~cl[c].can_read /\ ~ReadHandler(c)

\* One request of the MAX_NBD_REQUESTS was released: reading is on again.
C15_Resumed ==
    \E c \in Clients :
        /\ ~cl[c].freed /\ ~cl[c].closing
        /\ cl[c].nb_requests = MAX_NBD_REQUESTS - 1
        /\ cl[c].recv_coroutine = NULL
        /\ bg[c] = MAX_NBD_REQUESTS - 1
        /\ cl[c].can_read /\ ReadHandler(c)

\* C16: no two exports in the registry are bound to the same name.
C16_AsStated ==
    \A i \in 1..Len(exports), j \in 1..Len(exports) :
        i # j => ex[exports[i]].name # ex[exports[j]].name

\* Two exports in the registry under one name; nbd_export_find answers
\* with the one bound first.
C16_SameName ==
    \E e \in Exps, f \in Exps :
        /\ e # f /\ exports = <<e, f>>
        /\ ex[e].name = "a" /\ ex[f].name = "a"
        /\ nbd_export_find(World, "a") = e

\* C17: an export is in the registry, exactly once, if and only if its
\* name is bound; nbd_export_find of a bound name returns an export with
\* that name; an export whose name is unbound is not listed and not found.
C17_ListedIffBound ==
    \A e \in Exps :
        LET at == {i \in 1..Len(exports) : exports[i] = e}
            found == nbd_export_find(World, ex[e].name)
        IN  /\ Cardinality(at) = (IF ex[e].name # NULLNAME THEN 1 ELSE 0)
            /\ ex[e].name # NULLNAME =>
                   /\ found # NULL
                   /\ ex[found].name = ex[e].name
            /\ ex[e].name = NULLNAME =>
                   \A name \in Names : nbd_export_find(World, name) # e

\* An export a client selected by name, unbound since: it is not in the
\* registry any more, while the other export is bound and found.
C17_UnboundAgain ==
    \E c \in Clients, e \in Exps, f \in Exps :
        /\ neg[c].opt = NBD_OPT_EXPORT_NAME /\ cl[c].exp = e
        /\ ex[e].name = NULLNAME /\ ~InSeq(exports, e)
        /\ ex[f].name = "a" /\ exports = <<f>>
        /\ nbd_export_find(World, "a") = f

\* C18: nbd_export_set_name changes the refcount of the export by +1 when
\* it binds an unbound export, by -1 when it unbinds a bound one, and by 0
\* when it rebinds a bound one or sets an unbound one to NULL; a rebind
\* never takes the refcount to 0 on the way (the export is not torn down).
C18_SetNameRefcount ==
    [][\A e \in Exps, name \in Names \cup {NULLNAME} :
          (SetName(e, name) /\ abort' = "none") =>
              LET was == ex[e].name # NULLNAME
                  now == name # NULLNAME
                  delta == IF ~was /\ now THEN 1
                           ELSE IF was /\ ~now THEN 0 - 1
                           ELSE 0
              IN  /\ ex'[e].refcount = ex[e].refcount + delta
                  /\ now => /\ ex'[e].alive
                            /\ ex'[e].close_calls = ex[e].close_calls
                            /\ ex'[e].refcount > 0
                  /\ \A f \in Exps \ {e} : ex'[f].refcount = ex[f].refcount]_vars

\* An export listed to a client as "a" and bound to the name of 255 bytes
\* since, with the references of its creator and of its name.
C18_Rebound ==
    \E c \in Clients, e \in Exps :
        /\ neg[c].pc = "option" /\ neg[c].snap = <<"a">>
        /\ ex[e].name = LongName /\ exports = <<e>>
        /\ ex[e].refcount = 2 /\ ex[e].alive

\* The references to export e that have a holder: the caller of
\* nbd_export_new, the bound name, and every client attached to it.
Holders(e) ==
    (IF ex[e].held THEN 1 ELSE 0)
    + (IF ex[e].name # NULLNAME THEN 1 ELSE 0)
    + Cardinality({c \in Clients : cl[c].exp = e /\ ~cl[c].freed})

\* C20: when every holder releases only references it owns, an export is
\* torn down exactly once and exactly when its refcount reaches 0, with its
\* name unbound and no client attached; the assertions of nbd_export_put
\* and nbd_export_get hold, and the nbd_export_close that nbd_export_put
\* runs at refcount 1 does not free the export before the outer decrement.
C20_TornDownAtZero ==
    /\ abort \notin {"nbd_export_put: assert(exp->name == NULL)",
                      "nbd_export_put: assert(exp->refcount > 0)",
                      "nbd_export_get: assert(exp->refcount > 0)"}
    /\ \A e \in Exps :
           /\ ex[e].alive =>
                  /\ ex[e].refcount > 0 /\ ex[e].close_calls = 0 /\ ex[e].blk
                  /\ abort = "none" => ex[e].refcount = Holders(e)
           /\ ~ex[e].alive =>
                  /\ ex[e].refcount = 0 /\ ex[e].close_calls <= 1 /\ ~ex[e].blk
                  /\ ex[e].name = NULLNAME /\ ex[e].clients = <<>>
                  /\ ~InSeq(exports, e)
                  /\ ~ex[e].held
                  /\ abort = "none" => Holders(e) = 0

\* An export torn down: its creator gave up its reference, its name was
\* unbound and its client was released.
C20_TornDown ==
    \E c \in Clients, e \in Exps :
        /\ scn = "own" /\ abort = "none"
        /\ cl[c].freed
        /\ ~ex[e].alive /\ ex[e].close_calls = 1 /\ ex[e].refcount = 0

\* C19: when nbd_export_close(exp) returns, every client that was in the
\* client list of exp is closing and its close callback has been invoked
\* once, the name of exp is unbound and exp is not in the registry; exp is
\* not freed by the call while its creator or a client holds a reference.
C19_ExportClosed ==
    [][\A e \in Exps :
          (ExportClose(e) /\ abort' = "none") =>
              /\ \A c \in Clients :
                     InSeq(ex[e].clients, c) =>
                         /\ cl'[c].closing /\ cl'[c].shut
                         /\ cl'[c].close_calls = 1
                         /\ cl[c].close_calls = (IF cl[c].closing THEN 1 ELSE 0)
              /\ ex'[e].name = NULLNAME
              /\ ~InSeq(exports', e)
              /\ \A name \in Names : nbd_export_find(World, name)' # e
              /\ (ex[e].held \/ \E c \in Clients : cl'[c].exp = e /\ ~cl'[c].freed) =>
                     /\ ex'[e].alive /\ ex'[e].refcount > 0
                     /\ ex'[e].close_calls = 0]_vars

\* An export closed while its client had a request in flight: the client
\* is closing, by no failure of its own, and is still in the list; the
\* name is unbound; the export lives on.
C19_ClosedWithClient ==
    \E c \in Clients, e \in Exps :
        /\ abort = "none" /\ scn = "pipe"
        /\ InSeq(ex[e].clients, c) /\ cl[c].exp = e
        /\ cl[c].closing /\ cl[c].close_calls = 1 /\ ~cl[c].freed
        /\ cl[c].nb_requests > 0
        /\ \A s \in Slots : ~co[c][s].g.iofail /\ ~co[c][s].g.closed
        /\ ex[e].name = NULLNAME /\ exports = <<>> /\ ex[e].alive

\* C21: an export whose refcount has dropped to one while its name is
\* bound does not stay registered: the name is unbound and the export is
\* torn down.
C21_AsStated ==
    \A e \in Exps :
        ~(ex[e].alive /\ ex[e].refcount = 1 /\ ex[e].name # NULLNAME)

\* What the code does in the case of C21: nbd_export_put tests the
\* refcount before it decrements, so the release that takes a bound export
\* from two references to one leaves it alive, bound and registered.
C21_LeftRegistered ==
    [][\A e \in Exps :
          (ExportPut(e) /\ ex[e].refcount = 2 /\ ex[e].name # NULLNAME) =>
              /\ ex'[e].alive /\ ex'[e].refcount = 1 /\ ex'[e].close_calls = 0
              /\ ex'[e].name = ex[e].name
              /\ exports' = exports /\ InSeq(exports', e)
              /\ nbd_export_find(World, ex[e].name)' = e]_vars

\* The creator has released its reference and the client is gone: the
\* export lives on under its name with the one reference of the name.
C21_Registered ==
    \E c \in Clients, e \in Exps :
        /\ abort = "none" /\ scn = "own"
        /\ cl[c].freed /\ ~ex[e].held
        /\ ex[e].alive /\ ex[e].refcount = 1 /\ ex[e].clients = <<>>
        /\ ex[e].name = "a" /\ exports = <<e>>

\* C22: a client whose final release has run (its refcount reached 0) is
\* released in full: it is in no client list and every export has the
\* references it had without the client, those of its creator and of its
\* name; in oldstyle or newstyle, after a handshake that succeeded or
\* failed at any step.
C22_AsStated ==
    \A c \in Clients :
        cl[c].refcount <= 0 =>
            /\ cl[c].freed
            /\ \A e \in Exps :
                   /\ ~InSeq(ex[e].clients, c)
                   /\ ex[e].alive =>
                          ex[e].refcount = (IF ex[e].held THEN 1 ELSE 0)
                                           + (IF ex[e].name # NULLNAME THEN 1 ELSE 0)

\* What the code ensures for the release of C22: a client that was freed
\* has left the client list and returned its export reference.
C22_NoLeak ==
    \A c \in Clients :
        cl[c].freed =>
            \A e \in Exps :
                /\ ~InSeq(ex[e].clients, c)
                /\ ex[e].alive =>
                       ex[e].refcount = (IF ex[e].held THEN 1 ELSE 0)
                                        + (IF ex[e].name # NULLNAME THEN 1 ELSE 0)

\* A newstyle client released after its handshake failed with the export
\* selected: the export is back at the references of creator and name.
C22_ReleasedAfterFailure ==
    \E c \in Clients, e \in Exps :
        /\ neg[c].pc = "failed" /\ neg[c].opt = NBD_OPT_EXPORT_NAME
        /\ cl[c].exp = e /\ cl[c].freed
        /\ ex[e].alive /\ ex[e].refcount = 2 /\ ex[e].clients = <<>>
        /\ ex[e].name = "a"

\* C23: on a writable export, a successful WRITE(offset, data) followed
\* by READ(offset, len(data)) is answered with success and a payload equal
\* to data, for every offset and length within the export, multiples of
\* 512 or not.
C23_AsStated ==
    rt.pc = "replied" => (rt.error = 0 /\ rt.payload = rt.data)

\* What the code ensures for the round trip of C23: the payload equals
\* the data when the length is a multiple of the sector size.
C23_WholeSectors ==
    (rt.pc = "replied" /\ rt.len % BDRV_SECTOR_SIZE = 0) =>
        (rt.error = 0 /\ rt.payload = rt.data)

\* The second sector written and read back.
C23_ReadBack ==
    /\ rt.pc = "replied" /\ rt.from = 512 /\ rt.len = 512 /\ rt.dev_offset = 0
    /\ disk = [BlankDisk EXCEPT ![1] = 1]
    /\ rt.payload = rt.data /\ rt.payload.whole = <<1>>

\* C24: a WRITE on an export with NBD_FLAG_READ_ONLY has its payload
\* consumed, causes no backend operation, is answered by exactly one reply
\* whose error is the mapping of EROFS, NBD_EINVAL, and leaves the
\* connection open.
C24_AsStated ==
    \A c \in Clients, s \in Slots :
        LET r == co[c][s] IN
        (scn = "ro" /\ r.g.got /\ Command(r.request) = NBD_CMD_WRITE /\ r.pc = "done") =>
            /\ r.g.rc = 0
            /\ r.g.ncalls = 0
            /\ r.g.nrep = 1 /\ r.g.werror = system_errno_to_nbd_errno(EROFS)
            /\ ~r.g.closed

\* What the code ensures for the WRITE of C24 once its payload was
\* received: no backend operation, at most one reply, with error
\* NBD_EINVAL; a closed connection only after a socket failure, no reply
\* only after one or when the client was closed during the receive.
C24_ReadOnlyWrite ==
    \A c \in Clients, s \in Slots :
        LET r == co[c][s] IN
        (scn = "ro" /\ r.g.got /\ Command(r.request) = NBD_CMD_WRITE
             /\ r.pc \notin RecvPcs /\ r.g.rc = 0) =>
            /\ r.g.ncalls = 0 /\ r.pc \notin BackendPcs
            /\ r.g.nrep <= 1
            /\ r.g.nrep = 1 => r.g.werror = NBD_EINVAL
            /\ r.g.closed => r.g.iofail
            /\ (r.pc = "done" /\ r.g.nrep = 0) => (r.g.iofail \/ cl[c].closing)

\* A WRITE on the read-only export answered with NBD_EINVAL, the client
\* open and reading.
C24_Refused ==
    \E c \in Clients, s \in Slots :
        LET r == co[c][s] IN
        /\ scn = "ro" /\ (ex[cl[c].exp].nbdflags \div NBD_FLAG_READ_ONLY) % 2 = 1
        /\ r.pc = "done" /\ r.g.got /\ Command(r.request) = NBD_CMD_WRITE
        /\ r.g.rc = 0 /\ r.g.ncalls = 0
        /\ r.g.nrep = 1 /\ r.g.werror = NBD_EINVAL
        /\ ~cl[c].closing /\ cl[c].can_read /\ ReadHandler(c)

\* C25: a DISC request closes the connection without a reply: no reply
\* frame is written for it, no backend operation is issued, its request
\* object is released and client_close is invoked, whatever its offset and
\* length.
C25_AsStated ==
    \A c \in Clients, s \in Slots :
        LET r == co[c][s] IN
        (r.g.got /\ Command(r.request) = NBD_CMD_DISC) =>
            /\ r.g.nrep = 0 /\ r.pc \notin SendPcs \cup {"lock"}
            /\ r.g.ncalls = 0 /\ r.pc \notin BackendPcs
            /\ r.pc = "done" => (r.g.closed \/ cl[c].closing)

\* What the code ensures: the same for every DISC whose offset + length
\* does not wrap around 2^64, beyond the export or not.
C25_Disconnect ==
    \A c \in Clients, s \in Slots :
        LET r == co[c][s] IN
        (r.g.got /\ Command(r.request) = NBD_CMD_DISC /\ ~Overflows(r.request)) =>
            /\ r.g.nrep = 0 /\ r.pc \notin SendPcs \cup {"lock"}
            /\ r.g.ncalls = 0 /\ r.pc \notin BackendPcs
            /\ r.g.rc = 0
            /\ r.pc = "done" => (r.g.closed \/ cl[c].closing)

\* A DISC ending beyond the export that closed the connection: no reply,
\* no backend call, the request released, the client closing.
C25_Disconnected ==
    \E c \in Clients, s \in Slots :
        LET r == co[c][s] IN
        /\ r.pc = "done" /\ r.g.got /\ Command(r.request) = NBD_CMD_DISC
        /\ ~Overflows(r.request) /\ Lt64(ex[cl[c].exp].size, EndOf(r.request))
        /\ r.g.closed /\ ~r.g.iofail /\ cl[c].closing
        /\ r.g.nrep = 0 /\ r.g.ncalls = 0

\* C26: the error field of a reply header is the host errno mapped by
\* 0 -> 0, EPERM -> 1, EIO -> 5, ENOMEM -> 12, EINVAL -> 22,
\* ENOSPC, EFBIG and EDQUOT -> 28 and every other errno -> 22; the mapping
\* is applied once, when the header is encoded.
C26_ErrnoMapped ==
    LET Mapped(e) == IF e \in {0, 1, 5, 12, 22} THEN e
                     ELSE IF e \in {ENOSPC, EFBIG, EDQUOT} THEN 28
                     ELSE 22
    IN  /\ \A e \in 0..(EDQUOT + 1) : system_errno_to_nbd_errno(e) = Mapped(e)
        /\ \A c \in Clients, s \in Slots :
               LET r == co[c][s] IN
               /\ r.pc \in SendPcs => r.reply.error = Mapped(r.g.herr)
               /\ r.g.nrep >= 1 => r.g.werror = Mapped(r.g.herr)

\* A reply on the wire whose errno was EFBIG and whose error field is 28.
C26_FileTooBig ==
    \E c \in Clients, s \in Slots :
        LET r == co[c][s] IN
        /\ r.pc = "done" /\ r.g.nrep = 1
        /\ r.g.berr = EFBIG /\ r.g.herr = EFBIG /\ r.g.werror = NBD_ENOSPC

\* C27: in the newstyle negotiation client flags other than 0 and
\* FIXED_NEWSTYLE (1) are not accepted: no option is processed, no export
\* is selected and the connection is closed.
C27_ClientFlags ==
    \A c \in Clients :
        neg[c].refused =>
            /\ neg[c].pc = "failed"
            /\ neg[c].opt = 0 /\ neg[c].out = <<>> /\ neg[c].dropped = 0
            /\ cl[c].exp = NULL
            /\ \A e \in Exps : ~InSeq(ex[e].clients, c)
            /\ cl[c].closing /\ cl[c].shut
            /\ ~ReadHandler(c) /\ ~WriteHandler(c)

\* A newstyle client whose flags were refused: closed, with no export.
C27_Refused ==
    \E c \in Clients :
        /\ scn = "list" /\ neg[c].refused /\ neg[c].pc = "failed"
        /\ cl[c].closing /\ cl[c].exp = NULL

\* C28: a LIST option with non-zero length has exactly length bytes of
\* payload read and dropped, gets one NBD_REP_ERR_INVALID reply and no
\* NBD_REP_SERVER or NBD_REP_ACK, and does not close the connection: the
\* server goes on to read the next option header.
C28_ListWithPayload ==
    \A c \in Clients :
        LET n == neg[c]
            invalid == Rep("NBD_REP_ERR_INVALID", NBD_OPT_LIST, NULLNAME)
        IN  (n.opt = NBD_OPT_LIST /\ n.length # 0) =>
                /\ n.pc \in {"drop", "err_invalid", "option", "failed"}
                /\ n.dropped \in {0, n.length}
                /\ n.pc = "drop" => (n.dropped = 0 /\ n.out = <<>>)
                /\ n.pc = "err_invalid" => (n.dropped = n.length /\ n.out = <<>>)
                /\ n.pc = "option" =>
                       /\ n.dropped = n.length /\ n.out = <<invalid>>
                       /\ ~cl[c].closing /\ ~cl[c].shut
                /\ n.out \in {<<>>, <<invalid>>}
                /\ n.res = "none" /\ n.cursor = NULL

\* A LIST with one byte of payload answered: the byte dropped, the reply
\* written, the negotiation at the next option header.
C28_PayloadDropped ==
    \E c \in Clients :
        /\ neg[c].opt = NBD_OPT_LIST /\ neg[c].length = 1
        /\ neg[c].pc = "option" /\ neg[c].dropped = 1
        /\ neg[c].out = <<Rep("NBD_REP_ERR_INVALID", NBD_OPT_LIST, NULLNAME)>>
        /\ ~cl[c].closing

\* C29: when the backend switches I/O context, blk_aio_detach clears the
\* handlers of every client in the export's client list and
\* blk_aio_attached reinstalls them on the new context, the read handler
\* iff can_read and the write handler iff a send coroutine exists; between
\* the two no handler of a client attached to the export is registered and
\* no new request is started.
C29_ContextSwitch ==
    /\ [](\A e \in Exps, c \in Clients :
             (/\ ex[e].alive /\ ex[e].ctx = NULL
              /\ \/ InSeq(ex[e].clients, c)
                 \/ ~cl[c].freed /\ neg[c].pc = "done" /\ cl[c].exp = e) =>
                 (~ReadHandler(c) /\ ~WriteHandler(c)))
    /\ [][\A e \in Exps, x \in Ctxs :
             (AioAttached(e, x) /\ abort' = "none") =>
                 \A c \in Clients :
                     InSeq(ex[e].clients, c) =>
                         hnd'[c] = [NoHandlers EXCEPT
                                       ![x] = [rd |-> cl[c].can_read,
                                               wr |-> cl[c].send_coroutine # NULL]]]_vars
    /\ [][\A c \in Clients :
             (cl[c].exp # NULL /\ ex[cl[c].exp].ctx = NULL) => ~NbdReadSpawn(c)]_vars

\* The backend of an export with a listed client that reads and sends is
\* without context, the client without handler.
C29_Detached ==
    \E e \in Exps, c \in Clients :
        /\ ex[e].alive /\ ex[e].ctx = NULL /\ InSeq(ex[e].clients, c)
        /\ cl[c].can_read /\ cl[c].send_coroutine # NULL
        /\ ~ReadHandler(c) /\ ~WriteHandler(c)

\* C30: backpressure is released.  When MAX_NBD_REQUESTS requests of a
\* client are stalled in the backend, reading is off; once one of them
\* completes and is released reading is on again, and a further request
\* pending on the socket is received and dispatched, unless the client is
\* closed meanwhile.
C30_BackpressureReleased ==
    \A c \in Clients :
        LET Stalled == /\ bg[c] = MAX_NBD_REQUESTS
                       /\ cl[c].nb_requests = MAX_NBD_REQUESTS
                       /\ ~cl[c].can_read /\ ~ReadHandler(c)
            Out == abort # "none" \/ cl[c].closing
        IN  /\ [](bg[c] = MAX_NBD_REQUESTS => (~cl[c].can_read /\ ~ReadHandler(c)))
            /\ []((~cl[c].freed /\ cl[c].nb_requests < MAX_NBD_REQUESTS) =>
                      /\ cl[c].can_read
                      /\ ex[cl[c].exp].ctx # NULL => ReadHandler(c))
            /\ Stalled ~> ((cl[c].can_read /\ ReadHandler(c)) \/ Out)
            /\ Stalled ~>
                   (\/ Out
                    \/ \E s \in Slots :
                           /\ co[c][s].g.got
                           /\ Command(co[c][s].request) = NBD_CMD_READ
                           /\ co[c][s].pc \in BackendPcs \cup SendPcs \cup {"lock"})

\* The READ sent behind MAX_NBD_REQUESTS stalled FLUSH requests is in the
\* backend, MAX_NBD_REQUESTS - 1 of the FLUSH requests still stalled.
C30_Seventeenth ==
    \E c \in Clients, s \in Slots :
        /\ scn = "flood" /\ ~cl[c].closing
        /\ bg[c] = MAX_NBD_REQUESTS - 1
        /\ cl[c].nb_requests = MAX_NBD_REQUESTS
        /\ co[c][s].g.got /\ Command(co[c][s].request) = NBD_CMD_READ
        /\ co[c][s].pc = "read"

\* C31: every export nbd_export_new returns has a size that is
\* non-negative and a multiple of 512, the requested size, or the backend
\* length when the requested size is negative, rounded down to the sector
\* size; when the length query fails no export is created, NULL is
\* returned and neither a backend reference nor a context notifier is left.
C31_ExportSize ==
    LET wanted == IF rt.size < 0 THEN rt.length ELSE rt.size
        sectors == CHOOSE n \in 0..wanted :
                       n * BDRV_SECTOR_SIZE <= wanted /\ wanted < (n + 1) * BDRV_SECTOR_SIZE
    IN  /\ rt.pc = "created" =>
               /\ wanted >= 0
               /\ ex[1].alive /\ ex[1].refcount = 1 /\ ex[1].blk /\ ex[1].ctx # NULL
               /\ ex[1].size = U64Of(sectors * BDRV_SECTOR_SIZE)
               /\ ex[1].size[4] % BDRV_SECTOR_SIZE = 0
               /\ ex[1].nbdflags = rt.nbdflags
        /\ rt.pc = "null" =>
               /\ rt.size < 0 /\ rt.length < 0
               /\ ex[1] = NoExport /\ ~ex[1].alive /\ ~ex[1].blk /\ ex[1].ctx = NULL
        /\ rt.pc \in {"created", "null"} => (rt.pc = "null" <=> wanted < 0)

\* An export created with the backend's length, 1000, rounded down to 512.
C31_BackendLength ==
    /\ rt.pc = "created" /\ rt.size = -1 /\ rt.length = 1000
    /\ ex[1].alive /\ ex[1].size = U64Of(512)

\* No export after a failed length query.
C31_NoExport ==
    /\ rt.pc = "null" /\ rt.size = -1 /\ rt.length = -EIO
    /\ ex[1] = NoExport

\* C32: the reference count of a client holds one reference for each
\* live request, one for the send coroutine while it sends and one for the
\* handler registration, so a client with a registered handler, in an
\* AioContext or of its handshake in the main loop, or with a reply being
\* sent is never freed.
C32_AsStated ==
    \A c \in Clients :
        LET registered == \/ ReadHandler(c) \/ WriteHandler(c)
                          \/ neg[c].pc \notin {"done", "failed"}
            One(b) == IF b THEN 1 ELSE 0
        IN  /\ ~cl[c].freed =>
                   cl[c].refcount = cl[c].nb_requests + One(cl[c].send_coroutine # NULL)
                                        + One(registered)
            /\ cl[c].freed => (~registered /\ cl[c].send_coroutine = NULL)

\* What the code counts: one reference for each live request and the one
\* nbd_client_new returned, until the close callback gives it up.  A
\* client is not freed with a request alive, a reply being sent or a
\* handler in an AioContext.
C32_Counted ==
    \A c \in Clients :
        /\ (~cl[c].freed /\ abort = "none") =>
               cl[c].refcount = cl[c].nb_requests
                                    + (IF cl[c].close_calls = 0 THEN 1 ELSE 0)
        /\ (cl[c].freed /\ ~cl[c].uaf) =>
               /\ cl[c].nb_requests = 0 /\ cl[c].send_coroutine = NULL
               /\ ~ReadHandler(c) /\ ~WriteHandler(c)

\* A reply being sent by a client with its handlers registered: two
\* references, the request's and the creator's.
C32_Sending ==
    \E c \in Clients :
        /\ ~cl[c].freed /\ ~cl[c].closing
        /\ cl[c].send_coroutine # NULL /\ WriteHandler(c) /\ ReadHandler(c)
        /\ cl[c].nb_requests = 1 /\ cl[c].refcount = 2

\* A client freed while its handshake coroutine waits for the socket.
C32_FreedInHandshake ==
    \E c \in Clients :
        cl[c].freed /\ ~cl[c].uaf /\ neg[c].pc \notin {"done", "failed"}

\* C33: whenever control is in the event loop, for a client whose
\* handshake completed and whose export has an AioContext, the read
\* handler is registered iff can_read and the write handler iff
\* send_coroutine is not NULL; so nbd_restart_write is never invoked
\* without a send coroutine, and reading is masked while MAX_NBD_REQUESTS
\* requests are in flight and no coroutine is receiving.
C33_HandlersMatch ==
    \A c \in Clients :
        LET e == cl[c].exp IN
        (~cl[c].freed /\ abort = "none") =>
            /\ (neg[c].pc = "done" /\ e # NULL /\ ex[e].ctx # NULL) =>
                   hnd[c] = [NoHandlers EXCEPT
                                ![ex[e].ctx] = [rd |-> cl[c].can_read,
                                                wr |-> cl[c].send_coroutine # NULL]]
            /\ WriteHandler(c) => cl[c].send_coroutine # NULL
            /\ (cl[c].nb_requests = MAX_NBD_REQUESTS /\ cl[c].recv_coroutine = NULL) =>
                   ~ReadHandler(c)

\* A reply was sent and the receive of the next request goes on: the write
\* handler is gone, the read handler registered.
C33_AfterSend ==
    \E c \in Clients, s \in Slots :
        /\ ~cl[c].freed /\ ~cl[c].closing /\ neg[c].pc = "done"
        /\ co[c][s].pc = "done" /\ co[c][s].g.nrep = 1
        /\ cl[c].send_coroutine = NULL /\ ~WriteHandler(c)
        /\ cl[c].can_read /\ ReadHandler(c)

\* C34: FUA ordering.  For a READ with FUA the backend flush completes
\* before the read starts, and a failed flush yields an error reply and no
\* read; for a WRITE with FUA on a writable export the write completes
\* before the flush starts, and the success reply is written only after
\* both succeeded; a failure of either yields an error reply.
C34_FuaOrdering ==
    /\ [](\A c \in Clients, s \in Slots :
             LET r == co[c][s]
                 command == Command(r.request)
             IN  (r.g.got /\ HasFUA(r.request)
                      /\ command \in {NBD_CMD_READ, NBD_CMD_WRITE}) =>
                     /\ r.pc \in {"flush_r", "write"} => (r.g.ncalls = 1 /\ r.g.berr = 0)
                     /\ r.pc \in {"read", "flush_w"} => (r.g.ncalls = 2 /\ r.g.berr = 0)
                     /\ r.pc \in {"flush_r", "read"} => command = NBD_CMD_READ
                     /\ r.pc \in {"write", "flush_w"} => command = NBD_CMD_WRITE
                     /\ r.pc \notin {"flush", "discard"}
                     /\ (r.g.nrep >= 1 /\ r.g.werror = 0) =>
                            (r.g.ncalls = 2 /\ r.g.berr = 0)
                     /\ (r.g.nrep >= 1 /\ r.g.berr # 0) => r.g.werror # 0
                     /\ (r.g.berr # 0 /\ r.pc = "done" /\ ~r.g.iofail) => r.g.nrep = 1)
    /\ [][\A c \in Clients, s \in Slots :
             LET old == co[c][s]
                 new == co'[c][s]
             IN  (new.pc # old.pc /\ HasFUA(new.request)) =>
                     /\ new.pc = "flush_r" => old.pc = "recv_hdr"
                     /\ new.pc = "read" => old.pc = "flush_r"
                     /\ new.pc = "write" => old.pc \in RecvPcs
                     /\ new.pc = "flush_w" => old.pc = "write"]_vars

\* A WRITE with FUA answered with success after two backend operations.
C34_WrittenThrough ==
    \E c \in Clients, s \in Slots :
        LET r == co[c][s] IN
        /\ r.g.got /\ HasFUA(r.request) /\ Command(r.request) = NBD_CMD_WRITE
        /\ r.pc = "done" /\ r.g.nrep = 1 /\ r.g.werror = 0 /\ r.g.ncalls = 2

\* A READ with FUA whose flush failed: an error reply after one backend
\* operation.
C34_FlushFailed ==
    \E c \in Clients, s \in Slots :
        LET r == co[c][s] IN
        /\ r.g.got /\ HasFUA(r.request) /\ Command(r.request) = NBD_CMD_READ
        /\ r.pc = "done" /\ r.g.nrep = 1 /\ r.g.werror = NBD_EIO /\ r.g.ncalls = 1

\* C35: when writing a reply header or payload fails, nbd_co_send_reply
\* still clears send_coroutine and releases send_lock before it returns,
\* and nbd_trip then closes the client; a send error never leaves the
\* mutex held, and every coroutine waiting for the mutex of a closing
\* client eventually acquires it.
C35_SendError ==
    /\ [][\A c \in Clients, s \in Slots :
             (/\ co[c][s].pc \in SendPcs /\ co'[c][s].pc \notin SendPcs
              /\ co'[c][s].g.iofail /\ abort' = "none") =>
                 /\ cl'[c].send_coroutine # s
                 /\ cl'[c].send_lock.locked => cl'[c].send_coroutine # NULL
                 /\ ~InSeq(cl'[c].send_lock.queue, s)
                 /\ co'[c][s].pc = "done" /\ co'[c][s].g.closed
                 /\ cl'[c].closing /\ cl'[c].shut]_vars
    /\ \A c \in Clients, t \in Slots :
           (co[c][t].pc = "lock" /\ cl[c].closing) ~> (co[c][t].pc # "lock")

\* The write of a reply failed while another coroutine waited for the
\* mutex: that one holds it now and sends, the client closing.
C35_HandedOver ==
    \E c \in Clients, s \in Slots, t \in Slots :
        /\ s # t
        /\ co[c][s].pc = "done" /\ co[c][s].g.iofail /\ co[c][s].g.closed
        /\ co[c][s].g.nrep = 0
        /\ cl[c].send_coroutine = t /\ co[c][t].pc \in SendPcs
        /\ cl[c].send_lock.locked /\ cl[c].closing

\* C36: every WRITE that is answered while the connection stays open had
\* its payload consumed from the socket (qemu_co_recv returned, so
\* nbd_co_receive_request returned 0) before the next header is read.
C36_AsStated ==
    \A c \in Clients, s \in Slots :
        LET r == co[c][s] IN
        (r.g.got /\ Command(r.request) = NBD_CMD_WRITE /\ r.g.nrep >= 1
             /\ ~r.g.iofail /\ ~cl[c].closing) =>
            r.g.rc = 0

\* What the code ensures for the WRITE of C36: the payload is received
\* exactly when the range does not wrap, the length is at most
\* NBD_MAX_BUFFER_SIZE and the buffer was allocated; otherwise the receive
\* returns -EINVAL or -ENOMEM with no payload byte read, and the reply, if
\* one is written, carries that error and no backend operation was issued.
C36_PayloadRead ==
    /\ [](\A c \in Clients, s \in Slots :
            LET r == co[c][s] IN
            (r.g.got /\ Command(r.request) = NBD_CMD_WRITE /\ r.g.rc # 0) =>
                /\ r.g.rc \in {-EINVAL, -ENOMEM, -EIO}
                /\ r.g.ncalls = 0
                /\ (r.g.nrep >= 1 /\ r.g.rc = -EINVAL) => r.g.werror = NBD_EINVAL
                /\ (r.g.nrep >= 1 /\ r.g.rc = -ENOMEM) => r.g.werror = NBD_ENOMEM
                /\ r.g.rc = -EIO => r.g.nrep = 0)
    /\ [][\A c \in Clients, s \in Slots :
             (/\ co[c][s].pc = "recv_hdr" /\ co'[c][s].g.got /\ abort' = "none"
              /\ Command(co'[c][s].request) = NBD_CMD_WRITE) =>
                 LET h == co'[c][s].request IN
                 /\ co'[c][s].pc = "recv_data" =>
                        /\ ~Lt64(EndOf(h), h.from)
                        /\ h.len <= NBD_MAX_BUFFER_SIZE
                        /\ co'[c][s].data
                 /\ co'[c][s].pc # "recv_data" =>
                        /\ co'[c][s].g.rc \in {-EINVAL, -ENOMEM}
                        /\ (Lt64(EndOf(h), h.from) \/ h.len > NBD_MAX_BUFFER_SIZE)
                               => co'[c][s].g.rc = -EINVAL]_vars
    /\ [][\A c \in Clients, s \in Slots :
             (co[c][s].pc = "recv_data" /\ co'[c][s].pc # "recv_data"
                  /\ abort' = "none") =>
                 co'[c][s].g.rc \in {0, -EIO}]_vars

\* A WRITE longer than NBD_MAX_BUFFER_SIZE answered with EINVAL on a
\* connection that stays open, its payload still in the socket.
C36_PayloadLeft ==
    \E c \in Clients, s \in Slots :
        LET r == co[c][s] IN
        /\ r.g.got /\ Command(r.request) = NBD_CMD_WRITE
        /\ r.request.len > NBD_MAX_BUFFER_SIZE
        /\ r.g.rc = -EINVAL /\ r.g.nrep = 1 /\ r.g.werror = NBD_EINVAL
        /\ r.pc = "done" /\ ~r.g.iofail /\ ~cl[c].closing /\ ReadHandler(c)

\* C37: no code path reads or writes a client after its final release:
\* the error path of nbd_trip (nbd_request_put, then client_close) and a
\* resuming handshake coroutine touch only a client that is allocated.
C37_AsStated == \A c \in Clients : ~cl[c].uaf

\* What the code ensures for C37: a freed client is used only by
\* client_close, called at the label out of an nbd_trip whose
\* nbd_request_put released the last reference, or by the handshake
\* coroutine that resumes with a failure; in both cases the close callback
\* had run before and the client was closing.  A request that ends at the
\* label done never touches a freed client.
C37_UseAfterFree ==
    /\ [](\A c \in Clients :
            cl[c].uaf =>
                /\ cl[c].freed /\ cl[c].close_calls >= 1
                /\ \/ \E s \in Slots : co[c][s].pc = "done" /\ co[c][s].g.closed
                   \/ neg[c].pc = "failed")
    /\ [][\A c \in Clients :
             (~cl[c].uaf /\ cl'[c].uaf) =>
                 /\ cl[c].closing /\ cl[c].close_calls = 1
                 /\ \/ /\ ~cl[c].freed /\ cl[c].refcount = 1
                       /\ \E s \in Slots :
                              /\ co[c][s].pc \notin {"free", "done"}
                              /\ co'[c][s].pc = "done" /\ co'[c][s].g.closed
                              /\ \/ co'[c][s].g.iofail
                                 \/ co'[c][s].g.rc = -EIO
                                 \/ Command(co'[c][s].request) = NBD_CMD_DISC
                    \/ /\ neg[c].pc \notin {"done", "failed"}
                       /\ neg'[c].pc = "failed"
                       /\ cl[c].freed]_vars

\* A request that failed on a closing client: nbd_request_put freed the
\* client and client_close was then called on it.
C37_ClosedAfterFree ==
    \E c \in Clients, s \in Slots :
        /\ cl[c].uaf /\ cl[c].freed /\ neg[c].pc = "done"
        /\ co[c][s].pc = "done" /\ co[c][s].g.closed /\ co[c][s].g.iofail
        /\ abort = "none"

\* The handshake coroutine resumed on a client freed by nbd_export_close.
C37_HandshakeAfterFree ==
    \E c \in Clients :
        cl[c].uaf /\ cl[c].freed /\ neg[c].pc = "failed" /\ abort = "none"

\* C38: whenever nbd_client_put performs the final release of a client
\* whose exp is non-NULL, the client is a member of exp's client list,
\* for an oldstyle client whose negotiation failed as for a client that
\* served requests; every client in a list appears there once and is
\* attached to that export.
C38_AsStated ==
    /\ abort # "nbd_client_put: QTAILQ_REMOVE of a client not in the list"
    /\ \A e \in Exps, c \in Clients :
           InSeq(ex[e].clients, c) =>
               /\ Cardinality({i \in 1..Len(ex[e].clients) : ex[e].clients[i] = c}) = 1
               /\ cl[c].exp = e /\ ~cl[c].freed

\* What the code ensures for C38: a final release that completes finds
\* the client in the list of its export and removes it; the lists hold
\* each client once, attached and allocated; the one release that does
\* not find its client in the list is that of a client given its export
\* by nbd_client_new whose negotiation failed, before
\* nbd_co_client_start inserted it.
C38_ListedUnlessOldstyleFailed ==
    /\ [](\A e \in Exps, c \in Clients :
            InSeq(ex[e].clients, c) =>
                /\ Cardinality({i \in 1..Len(ex[e].clients) : ex[e].clients[i] = c}) = 1
                /\ cl[c].exp = e /\ ~cl[c].freed)
    /\ [](abort = "nbd_client_put: QTAILQ_REMOVE of a client not in the list" =>
            /\ scn = "old"
            /\ \E c \in Clients :
                   /\ neg[c].pc = "failed" /\ cl[c].exp # NULL
                   /\ cl[c].refcount = 0 /\ cl[c].closing /\ ~cl[c].freed
                   /\ ~InSeq(ex[cl[c].exp].clients, c))
    /\ [][\A c \in Clients :
             (~cl[c].freed /\ cl'[c].freed /\ cl[c].exp # NULL) =>
                 /\ InSeq(ex[cl[c].exp].clients, c)
                 /\ ~InSeq(ex'[cl[c].exp].clients, c)
                 /\ cl'[c].exp = cl[c].exp]_vars
    /\ [][\A c \in Clients :
             (scn = "old" /\ neg[c].pc = "old" /\ neg'[c].pc = "failed") =>
                 abort' = "nbd_client_put: QTAILQ_REMOVE of a client not in the list"
                 \/ ~cl[c].has_close]_vars

\* The negotiation of an oldstyle client failed: the close callback's
\* nbd_client_put removes from the list a client that was never inserted.
C38_NeverInserted ==
    \E c \in Clients :
        /\ scn = "old" /\ neg[c].pc = "failed" /\ cl[c].exp # NULL
        /\ ex[cl[c].exp].clients = <<>>
        /\ abort = "nbd_client_put: QTAILQ_REMOVE of a client not in the list"

\* C39: once a client is closing no new request is started on it
\* (nb_requests never increases and no coroutine begins to receive), no
\* backend operation is started for a request whose receive completes
\* after closing was set, no reply is added to those the requests had
\* written, and the requests in flight run to completion and release their
\* references.
C39_Closing ==
    /\ [][\A c \in Clients :
             (cl[c].closing /\ abort' = "none") =>
                 /\ cl'[c].closing
                 /\ cl'[c].nb_requests <= cl[c].nb_requests
                 /\ \A s \in Slots :
                        /\ co'[c][s].pc = "recv_hdr" => co[c][s].pc = "recv_hdr"
                        /\ (co[c][s].pc \in RecvPcs /\ co'[c][s].pc \notin RecvPcs) =>
                               /\ co'[c][s].pc \in {"done", "send_hdr", "lock"}
                               /\ co'[c][s].pc # "done" => co'[c][s].reply.error # 0
                               /\ co'[c][s].g.ncalls = 0
                        /\ co'[c][s].g.nrep <= co[c][s].g.nrep]_vars
    /\ \A c \in Clients :
           cl[c].closing ~> (cl[c].nb_requests = 0 \/ abort # "none")

\* A READ within the export whose header arrived after the client was
\* closed: it ended at done with no backend call, no reply and no
\* client_close of its own.
C39_ReceivedAfterClose ==
    \E c \in Clients, s \in Slots :
        LET r == co[c][s] IN
        /\ cl[c].closing /\ abort = "none"
        /\ r.pc = "done" /\ r.g.got /\ r.g.rc = 0
        /\ Command(r.request) = NBD_CMD_READ
        /\ ~Lt64(ex[cl[c].exp].size, EndOf(r.request))
        /\ r.g.ncalls = 0 /\ r.g.nrep = 0 /\ ~r.g.closed /\ ~r.g.iofail

\* A request that was in its backend operation when the client was
\* closed: the operation completed, the reply could not be sent, and the
\* request released its reference.
C39_CompletedAfterClose ==
    \E c \in Clients, s \in Slots :
        LET r == co[c][s] IN
        /\ cl[c].closing /\ abort = "none" /\ cl[c].nb_requests = 0
        /\ r.pc = "done" /\ r.g.ncalls = 1 /\ r.g.berr = 0
        /\ r.g.nrep = 0 /\ r.g.iofail /\ r.g.closed

\* C40: when nbd_export_close_all returns the registry is empty (no name
\* resolves, a LIST would find no name to report), every client that was
\* attached to an export registered at the call is closing, and the loop
\* visited each registered export once: it never followed a link to an
\* export that had left the registry, and no export was torn down twice.
C40_AllClosed ==
    /\ [](abort # "nbd_export_close_all: the next export left the registry")
    /\ [][(ExportCloseAll /\ abort' = "none") =>
             /\ exports' = <<>> /\ bindlog' = <<>>
             /\ \A name \in Names : nbd_export_find(World, name)' = NULL
             /\ \A e \in Exps :
                    /\ ex'[e].name = NULLNAME
                    /\ ex'[e].close_calls <= 1
                    /\ InSeq(exports, e) =>
                           /\ \A c \in Clients :
                                  InSeq(ex[e].clients, c) =>
                                      /\ cl'[c].closing /\ cl'[c].shut
                                      /\ cl'[c].close_calls = 1
                           /\ ex'[e].alive =
                                  (ex[e].held
                                   \/ \E c \in Clients : cl'[c].exp = e /\ ~cl'[c].freed)
                    /\ ~InSeq(exports, e) =>
                           /\ ex'[e] = ex[e]
                           /\ \A c \in Clients : cl[c].exp = e => cl'[c] = cl[c]]_vars

\* Both exports were registered, one with a client that served a request,
\* and all were closed: the registry is empty, the client is closing and
\* both exports live on with their creators' references.
C40_RegistryEmptied ==
    \E c \in Clients :
        /\ scn = "list" /\ abort = "none"
        /\ exports = <<>> /\ bindlog = <<>>
        /\ \A e \in Exps : ex[e].alive /\ ex[e].name = NULLNAME
        /\ cl[c].exp # NULL /\ cl[c].closing /\ cl[c].close_calls = 1
        /\ neg[c].pc = "done"

====
